---- MODULE Spec2Model ----
(***************************************************************************)
(* A model of the MicroCode compiler: lexer, recursive-descent parser,     *)
(* semantic analyzer, three-address-code generator, optimizer (constant    *)
(* folding, dead code elimination) and the TAC interpreter, driven by      *)
(* Compiler.compile.  Text (source, token values, TAC operands, printed    *)
(* lines) is modelled as strings, i.e. sequences of characters.            *)
(***************************************************************************)
EXTENDS Integers, Sequences, FiniteSets, TLC

VARIABLES
    source,     \* Compiler.source
    stage,      \* position of Compiler.compile: the phase about to run
    tokens,     \* Compiler.tokens / Parser.tokens
    pos,        \* Parser.pos
    statements, \* the local list `statements` of Parser.parse
    idle,       \* iterations of Parser.parse's loop that consumed no token
    ast,        \* Compiler.ast
    symbols,    \* SemanticAnalyzer.symbol_table.symbols
    tac,        \* Compiler.tac
    folded,     \* the list constant_folding returned inside Optimizer.optimize
    constants,  \* Optimizer.constants
    used_vars,  \* Optimizer.used_vars
    optimized,  \* Compiler.optimized_tac
    cg,         \* the CodeGenerator: memory, output, pc, labels
    steps,      \* instructions the interpreter has executed in this run
    result      \* what Compiler.compile returned: (success, output)

vars == <<source, stage, tokens, pos, statements, idle, ast, symbols, tac,
          folded, constants, used_vars, optimized, cg, steps, result>>

(***************************************************************************)
(* Text                                                                    *)
(***************************************************************************)

\* Python's None, where a token type, an operand or a result may be None.
None == "<None>"

\* A local name: `name = value` of Python, followed by the code that reads
\* the name.  Bind(value, LAMBDA name : rest) computes value, then rest with
\* name standing for it, as Python runs one statement after another.  (The
\* test makes the order: an operator's argument alone is computed where it
\* is first read, so that a loop handing on its state would compute the
\* state of one turn inside the next.)
Bind(value, Rest(_)) == IF value = value THEN Rest(value) ELSE Rest(value)

\* s[i-1:j] of Python for 1-based i..j: the part of it that lies inside s.
Slice(s, i, j) ==
    LET lo == IF i < 1 THEN 1 ELSE i
        hi == IF j > Len(s) THEN Len(s) ELSE j
    IN  IF lo > hi THEN "" ELSE SubSeq(s, lo, hi)

\* The i-th character of s as a text, "" outside s.
CharAt(s, i) == Slice(s, i, i)

DigitChars == {"0", "1", "2", "3", "4", "5", "6", "7", "8", "9"}

LowerChars == {"a", "b", "c", "d", "e", "f", "g", "h", "i", "j", "k", "l", "m",
               "n", "o", "p", "q", "r", "s", "t", "u", "v", "w", "x", "y", "z"}

UpperChars == {"A", "B", "C", "D", "E", "F", "G", "H", "I", "J", "K", "L", "M",
               "N", "O", "P", "Q", "R", "S", "T", "U", "V", "W", "X", "Y", "Z"}

\* The characters str.strip() removes and the regex \s matches.
SpaceChars == {" ", "\t", "\n", "\r", "\f"}

Digits == "0123456789"
LowerAlphabet == "abcdefghijklmnopqrstuvwxyz"
UpperAlphabet == "ABCDEFGHIJKLMNOPQRSTUVWXYZ"

\* The characters of the model's texts in code point order (str comparison).
CodePoints == "\t\n\f\r !\"#%&()*+,-./0123456789:;<=>?ABCDEFGHIJKLMNOPQRSTUVWXYZ[\\]_abcdefghijklmnopqrstuvwxyz{}"

\* The least element of a non-empty set of integers.
Least(ks) == CHOOSE k \in ks : \A j \in ks : k <= j

\* The least index >= i of character c in s, 0 when there is none.
IndexOf(c, s, i) ==
    Bind({k \in i..Len(s) : CharAt(s, k) = c}, LAMBDA ks :
        IF ks = {} THEN 0 ELSE Least(ks))

Ord(c) == IndexOf(c, CodePoints, 1)

StartsWith(s, prefix) ==
    /\ Len(s) >= Len(prefix)
    /\ Slice(s, 1, Len(prefix)) = prefix

EndsWith(s, suffix) ==
    /\ Len(s) >= Len(suffix)
    /\ Slice(s, Len(s) - Len(suffix) + 1, Len(s)) = suffix

RECURSIVE NatToText(_)
NatToText(n) ==
    IF n < 10 THEN CharAt(Digits, n + 1)
    ELSE NatToText(n \div 10) \o CharAt(Digits, (n % 10) + 1)

\* str(n) of a Python int.
IntToText(n) == IF n < 0 THEN "-" \o NatToText(0 - n) ELSE NatToText(n)

\* str.strip(): s from its first to its last character that is no space.
Strip(s) ==
    Bind({k \in 1..Len(s) : CharAt(s, k) \notin SpaceChars}, LAMBDA ks :
        IF ks = {} THEN ""
        ELSE Slice(s, Least(ks), CHOOSE k \in ks : \A j \in ks : j <= k))

RECURSIVE DigitsValue(_, _, _)
\* The value of the digit string s from index i on, acc being the value so
\* far; -1 when s[i..] is not digits separated by single underscores.
DigitsValue(s, i, acc) ==
    IF i > Len(s) THEN acc
    ELSE IF CharAt(s, i) \in DigitChars
    THEN DigitsValue(s, i + 1, acc * 10 + (IndexOf(CharAt(s, i), Digits, 1) - 1))
    ELSE IF /\ CharAt(s, i) = "_"
            /\ i > 1 /\ CharAt(s, i - 1) \in DigitChars
            /\ i < Len(s) /\ CharAt(s, i + 1) \in DigitChars
    THEN DigitsValue(s, i + 1, acc)
    ELSE -1

\* int(text): [ok, value]; ok is FALSE where Python raises ValueError.
PyInt(text) ==
    Bind(Strip(text), LAMBDA s :
    Bind(Len(s) > 0 /\ CharAt(s, 1) \in {"-", "+"}, LAMBDA signed :
    Bind(IF signed THEN Tail(s) ELSE s, LAMBDA body :
        Bind(IF Len(body) = 0 \/ CharAt(body, 1) \notin DigitChars
             THEN -1
             ELSE DigitsValue(body, 1, 0), LAMBDA v :
        IF v < 0 THEN [ok |-> FALSE, value |-> 0]
        ELSE [ok |-> TRUE,
              value |-> IF signed /\ CharAt(s, 1) = "-" THEN 0 - v ELSE v]))))

RECURSIVE Lower(_)
\* str.lower(), by halves.
Lower(s) ==
    IF Len(s) = 0 THEN ""
    ELSE IF Len(s) = 1
    THEN Bind(IndexOf(s, UpperAlphabet, 1), LAMBDA k :
             IF k > 0 THEN CharAt(LowerAlphabet, k) ELSE s)
    ELSE Lower(Slice(s, 1, Len(s) \div 2))
         \o Lower(Slice(s, (Len(s) \div 2) + 1, Len(s)))

\* A raised Python exception.
Exception(kind, msg) == [kind |-> kind, msg |-> msg]

(***************************************************************************)
(* Lexer (Phase 1)                                                         *)
(***************************************************************************)

Token(type, value, line, column) ==
    [type |-> type, value |-> value, line |-> line, column |-> column]

KeywordTexts == {"var", "print", "if", "else", "while", "for",
                 "fibonacci", "factorial", "sequence", "end"}

\* Lexer.KEYWORDS: TokenType.<NAME> for the keyword <name>.
KEYWORDS(word) ==
    CASE word = "var" -> "VAR"
      [] word = "print" -> "PRINT"
      [] word = "if" -> "IF"
      [] word = "else" -> "ELSE"
      [] word = "while" -> "WHILE"
      [] word = "for" -> "FOR"
      [] word = "fibonacci" -> "FIBONACCI"
      [] word = "factorial" -> "FACTORIAL"
      [] word = "sequence" -> "SEQUENCE"
      [] word = "end" -> "END"

Pattern(kind, text, type) == [kind |-> kind, text |-> text, type |-> type]

\* Lexer.TOKEN_PATTERNS, in priority order.  A regular expression is named
\* by its kind; a "literal" matches exactly its text.
TOKEN_PATTERNS == <<
    Pattern("comment", "//.*", "COMMENT"),
    Pattern("space", "\\s+", None),
    Pattern("string", "\"[^\"]*\"", "STRING"),
    Pattern("integer", "-?\\d+", "INTEGER"),
    Pattern("identifier", "[a-zA-Z][a-zA-Z0-9_]*", "IDENTIFIER"),
    Pattern("literal", "==", "EQUAL"),
    Pattern("literal", "!=", "NOT_EQUAL"),
    Pattern("literal", "<=", "LESS_EQUAL"),
    Pattern("literal", ">=", "GREATER_EQUAL"),
    Pattern("literal", "=", "ASSIGN"),
    Pattern("literal", "+", "PLUS"),
    Pattern("literal", "-", "MINUS"),
    Pattern("literal", "*", "MULTIPLY"),
    Pattern("literal", "/", "DIVIDE"),
    Pattern("literal", "%", "MODULO"),
    Pattern("literal", "<", "LESS"),
    Pattern("literal", ">", "GREATER"),
    Pattern("literal", "(", "LPAREN"),
    Pattern("literal", ")", "RPAREN"),
    Pattern("literal", "{", "LBRACE"),
    Pattern("literal", "}", "RBRACE"),
    Pattern("literal", ",", "COMMA"),
    Pattern("literal", ";", "SEMICOLON") >>

\* The length of the longest run of characters of set cs in s from index i.
RunLength(s, i, cs) ==
    IF i > Len(s) THEN 0
    ELSE Least({k \in i..(Len(s) + 1) : CharAt(s, k) \notin cs}) - i

\* The number of characters from index i up to the next line break: `.*`.
LineRest(s, i) ==
    IF i > Len(s) THEN 0
    ELSE Least({k \in i..(Len(s) + 1) : k > Len(s) \/ CharAt(s, k) = "\n"}) - i

\* regex.match of pattern p on s[i..]: the length of the match, 0 for none
\* (no pattern matches the empty text).
MatchLength(p, s, i) ==
    CASE p.kind = "comment" ->
            IF Slice(s, i, i + 1) = "//" THEN 2 + LineRest(s, i + 2) ELSE 0
      [] p.kind = "space" -> RunLength(s, i, SpaceChars)
      [] p.kind = "string" ->
            IF CharAt(s, i) = "\"" /\ IndexOf("\"", s, i + 1) > 0
            THEN IndexOf("\"", s, i + 1) - i + 1
            ELSE 0
      [] p.kind = "integer" ->
            IF CharAt(s, i) = "-"
            THEN (IF RunLength(s, i + 1, DigitChars) > 0
                  THEN 1 + RunLength(s, i + 1, DigitChars)
                  ELSE 0)
            ELSE RunLength(s, i, DigitChars)
      [] p.kind = "identifier" ->
            IF i <= Len(s) /\ CharAt(s, i) \in LowerChars \cup UpperChars
            THEN 1 + RunLength(s, i + 1,
                               LowerChars \cup UpperChars \cup DigitChars \cup {"_"})
            ELSE 0
      [] p.kind = "literal" ->
            IF Slice(s, i, i + Len(p.text) - 1) = p.text THEN Len(p.text) ELSE 0

\* A choice of pattern that tries the rule of the minus sign before the
\* rule of the integers.
FirstMatch_minus_first(s, i, k) ==
    IF CharAt(s, i) = "-"
    THEN CHOOSE j \in 1..Len(TOKEN_PATTERNS) : TOKEN_PATTERNS[j].type = "MINUS"
    ELSE Bind({j \in k..Len(TOKEN_PATTERNS) : MatchLength(TOKEN_PATTERNS[j], s, i) > 0}, LAMBDA ks :
            IF ks = {} THEN 0 ELSE Least(ks))

\* The index of the first pattern from k on that matches s[i..], 0 for none.
FirstMatch(s, i, k) ==
    Bind({j \in k..Len(TOKEN_PATTERNS) : MatchLength(TOKEN_PATTERNS[j], s, i) > 0}, LAMBDA ks :
        IF ks = {} THEN 0 ELSE Least(ks))

\* Lexer.advance over the text value: the [line, column] reached from at.
\* Each line break adds a line and resets the column to 1, every other
\* character adds a column.
advance(value, at) ==
    Bind({k \in 1..Len(value) : CharAt(value, k) = "\n"}, LAMBDA breaks :
        IF breaks = {} THEN [line |-> at.line, column |-> at.column + Len(value)]
        ELSE [line |-> at.line + Cardinality(breaks),
              column |-> 1 + Len(value)
                         - (CHOOSE k \in breaks : \A j \in breaks : j <= k)])

\* The Lexer object: pos (0-based), line, column, tokens; done is set when
\* tokenize has returned or raised, error being what it raised.
Lexer(p, line, column, toks, done, err) ==
    [pos |-> p, line |-> line, column |-> column, tokens |-> toks,
     done |-> done, error |-> err]

\* One iteration of the while loop of Lexer.tokenize, and its exit.
tokenize_step(src, lx) ==
    IF lx.pos >= Len(src)
    THEN Lexer(lx.pos, lx.line, lx.column,
               Append(lx.tokens, Token("EOF", "", lx.line, lx.column)),
               TRUE, Exception(None, ""))
    ELSE Bind(FirstMatch(src, lx.pos + 1, 1), LAMBDA k :
         IF k = 0
         THEN Lexer(lx.pos, lx.line, lx.column, lx.tokens, TRUE,
                    Exception("SyntaxError",
                        "Lexical error at line " \o IntToText(lx.line)
                        \o ", column " \o IntToText(lx.column)
                        \o ": Unexpected character: '"
                        \o CharAt(src, lx.pos + 1) \o "'"))
         ELSE Bind(TOKEN_PATTERNS[k], LAMBDA pat :
              Bind(MatchLength(pat, src, lx.pos + 1), LAMBDA n :
              Bind(Slice(src, lx.pos + 1, lx.pos + n), LAMBDA value :
                  Bind(   IF pat.type = "IDENTIFIER" /\ Lower(value) \in KeywordTexts
                          THEN KEYWORDS(Lower(value))
                          ELSE pat.type, LAMBDA type :
              Bind(advance(value, [line |-> lx.line, column |-> lx.column]), LAMBDA at :
                  Lexer(lx.pos + n, at.line, at.column,
                        IF pat.type = None \/ pat.type = "COMMENT"
                        THEN lx.tokens
                        ELSE Append(lx.tokens,
                                    Token(type, value, lx.line, lx.column)),
                        FALSE, Exception(None, ""))))))))

RECURSIVE tokenize_loop(_, _, _)
\* Up to n iterations of the while loop of Lexer.tokenize, stopping at its exit.
tokenize_loop(src, n, lx) ==
    IF lx.done \/ n = 0 THEN lx
    ELSE IF n = 1 THEN tokenize_step(src, lx)
    ELSE Bind(tokenize_loop(src, n \div 2, lx), LAMBDA half :
             IF half.done THEN half ELSE tokenize_loop(src, n - (n \div 2), half))

\* Lexer(source).tokenize(): [ok, tokens, error].  Every iteration consumes a
\* character, so Len(src) + 1 iterations reach the exit.
tokenize(src) ==
    Bind(     tokenize_loop(src, Len(src) + 1,
                            Lexer(0, 1, 1, <<>>, FALSE, Exception(None, ""))), LAMBDA lx :
        [ok |-> lx.error.kind = None, tokens |-> lx.tokens, error |-> lx.error])

(***************************************************************************)
(* Parser (Phase 2)                                                        *)
(***************************************************************************)

\* AST nodes; each keeps the line of its defining token (ASTNode.line).
Program(stmts) == [node |-> "Program", statements |-> stmts]

Declaration(identifier, expression, token) ==
    [node |-> "Declaration", identifier |-> identifier,
     expression |-> expression, line |-> token.line]

Assignment(identifier, expression, token) ==
    [node |-> "Assignment", identifier |-> identifier,
     expression |-> expression, line |-> token.line]

PrintStmt(expression, token) ==
    [node |-> "PrintStmt", expression |-> expression, line |-> token.line]

\* else_block is None in the source when there is no else: has_else says so.
IfStmt(condition, then_block, has_else, else_block, token) ==
    [node |-> "IfStmt", condition |-> condition, then_block |-> then_block,
     has_else |-> has_else, else_block |-> else_block, line |-> token.line]

WhileStmt(condition, block, token) ==
    [node |-> "WhileStmt", condition |-> condition, block |-> block,
     line |-> token.line]

ForStmt(init, condition, update, block, token) ==
    [node |-> "ForStmt", init |-> init, condition |-> condition,
     update |-> update, block |-> block, line |-> token.line]

PatternStmt(pattern_type, identifier, args, token) ==
    [node |-> "PatternStmt", pattern_type |-> pattern_type,
     identifier |-> identifier, args |-> args, line |-> token.line]

BinaryOp(left, op, right, token) ==
    [node |-> "BinaryOp", left |-> left, op |-> op, right |-> right,
     line |-> token.line]

UnaryOp(op, operand, token) ==
    [node |-> "UnaryOp", op |-> op, operand |-> operand, line |-> token.line]

Identifier(name, token) ==
    [node |-> "Identifier", name |-> name, line |-> token.line]

Integer(value, token) ==
    [node |-> "Integer", value |-> value, line |-> token.line]

String(value, token) ==
    [node |-> "String", text |-> value, line |-> token.line]

\* What a parse method hands back: the node it returns (a token for
\* consume; none is TRUE where the method returns None) and Parser.pos
\* after it, or the SyntaxError it raised.
Parsed(node, p) ==
    [ok |-> TRUE, none |-> FALSE, node |-> node, pos |-> p,
     error |-> Exception(None, "")]

ParsedNone(p) ==
    [ok |-> TRUE, none |-> TRUE, node |-> None, pos |-> p,
     error |-> Exception(None, "")]

Raised(e) == [ok |-> FALSE, none |-> FALSE, node |-> None, pos |-> 0, error |-> e]

\* Parser.current_token at Parser.pos = p
current_token(toks, p) ==
    IF p >= Len(toks) THEN toks[Len(toks)] ELSE toks[p + 1]

\* Parser.error
error(toks, p, message) ==
    Bind(current_token(toks, p), LAMBDA token :
    Raised(Exception("SyntaxError",
               "Syntax error at line " \o IntToText(token.line)
               \o ", column " \o IntToText(token.column) \o ": " \o message)))

\* Parser.consume; error_msg = None stands for the default message.
consume(toks, p, expected_type, error_msg) ==
    Bind(current_token(toks, p), LAMBDA token :
    IF token.type # expected_type
    THEN error(toks, p,
               IF error_msg # None THEN error_msg
               ELSE "Expected " \o expected_type \o ", got " \o token.type)
    ELSE Parsed(token, p + 1))

RECURSIVE parse_statement(_, _)
RECURSIVE parse_block(_, _, _)
RECURSIVE parse_expression(_, _)
RECURSIVE parse_unary(_, _)
RECURSIVE parse_arguments(_, _, _)
RECURSIVE multiplicative_loop(_, _, _)
RECURSIVE additive_loop(_, _, _)
RECURSIVE relational_loop(_, _, _)
RECURSIVE equality_loop(_, _, _)

\* Parser.parse_primary
parse_primary(toks, p) ==
    Bind(current_token(toks, p), LAMBDA token :
    CASE token.type = "INTEGER" ->
            Parsed(Integer(PyInt(token.value).value, token), p + 1)
      [] token.type = "STRING" ->
            Parsed(String(Slice(token.value, 2, Len(token.value) - 1), token), p + 1)
      [] token.type = "IDENTIFIER" ->
            Parsed(Identifier(token.value, token), p + 1)
      [] token.type = "LPAREN" ->
            Bind(consume(toks, p, "LPAREN", None), LAMBDA c :
            Bind(parse_expression(toks, c.pos), LAMBDA e :
                Bind(IF e.ok
                     THEN consume(toks, e.pos, "RPAREN", "Expected ')' after expression")
                     ELSE e, LAMBDA r :
                IF r.ok THEN Parsed(e.node, r.pos) ELSE r)))
      [] OTHER ->
            error(toks, p, "Unexpected token in expression: " \o token.type))

\* Parser.parse_unary
parse_unary(toks, p) ==
    IF current_token(toks, p).type = "MINUS"
    THEN Bind(consume(toks, p, "MINUS", None), LAMBDA c :
         Bind(parse_unary(toks, c.pos), LAMBDA operand :
             IF operand.ok
             THEN Parsed(UnaryOp("-", operand.node, c.node), operand.pos)
             ELSE operand))
    ELSE parse_primary(toks, p)

\* The while loop of Parser.parse_multiplicative, `left` parsed up to p.
multiplicative_loop(toks, p, left) ==
    Bind(current_token(toks, p), LAMBDA op_token :
    IF op_token.type \in {"MULTIPLY", "DIVIDE", "MODULO"}
    THEN Bind(     CASE op_token.type = "MULTIPLY" -> "*"
                     [] op_token.type = "DIVIDE" -> "/"
                     [] op_token.type = "MODULO" -> "%", LAMBDA op :
         Bind(parse_unary(toks, p + 1), LAMBDA right :
             IF right.ok
             THEN multiplicative_loop(toks, right.pos,
                                      BinaryOp(left, op, right.node, op_token))
             ELSE right))
    ELSE Parsed(left, p))

\* Parser.parse_multiplicative
parse_multiplicative(toks, p) ==
    Bind(parse_unary(toks, p), LAMBDA left :
    IF left.ok THEN multiplicative_loop(toks, left.pos, left.node) ELSE left)

\* The while loop of Parser.parse_additive
additive_loop(toks, p, left) ==
    Bind(current_token(toks, p), LAMBDA op_token :
    IF op_token.type \in {"PLUS", "MINUS"}
    THEN Bind(IF op_token.type = "PLUS" THEN "+" ELSE "-", LAMBDA op :
         Bind(parse_multiplicative(toks, p + 1), LAMBDA right :
             IF right.ok
             THEN additive_loop(toks, right.pos,
                                BinaryOp(left, op, right.node, op_token))
             ELSE right))
    ELSE Parsed(left, p))

\* Parser.parse_additive
parse_additive(toks, p) ==
    Bind(parse_multiplicative(toks, p), LAMBDA left :
    IF left.ok THEN additive_loop(toks, left.pos, left.node) ELSE left)

\* The while loop of Parser.parse_relational
relational_loop(toks, p, left) ==
    Bind(current_token(toks, p), LAMBDA op_token :
    IF op_token.type \in {"LESS", "GREATER", "LESS_EQUAL", "GREATER_EQUAL"}
    THEN Bind(     CASE op_token.type = "LESS" -> "<"
                     [] op_token.type = "GREATER" -> ">"
                     [] op_token.type = "LESS_EQUAL" -> "<="
                     [] op_token.type = "GREATER_EQUAL" -> ">=", LAMBDA op :
         Bind(parse_additive(toks, p + 1), LAMBDA right :
             IF right.ok
             THEN relational_loop(toks, right.pos,
                                  BinaryOp(left, op, right.node, op_token))
             ELSE right))
    ELSE Parsed(left, p))

\* Parser.parse_relational
parse_relational(toks, p) ==
    Bind(parse_additive(toks, p), LAMBDA left :
    IF left.ok THEN relational_loop(toks, left.pos, left.node) ELSE left)

\* The while loop of Parser.parse_equality
equality_loop(toks, p, left) ==
    Bind(current_token(toks, p), LAMBDA op_token :
    IF op_token.type \in {"EQUAL", "NOT_EQUAL"}
    THEN Bind(IF op_token.type = "EQUAL" THEN "==" ELSE "!=", LAMBDA op :
         Bind(parse_relational(toks, p + 1), LAMBDA right :
             IF right.ok
             THEN equality_loop(toks, right.pos,
                                BinaryOp(left, op, right.node, op_token))
             ELSE right))
    ELSE Parsed(left, p))

\* Parser.parse_equality
parse_equality(toks, p) ==
    Bind(parse_relational(toks, p), LAMBDA left :
    IF left.ok THEN equality_loop(toks, left.pos, left.node) ELSE left)

\* Parser.parse_expression
parse_expression(toks, p) == parse_equality(toks, p)

\* Parser.parse_declaration
parse_declaration(toks, p) ==
    Bind(consume(toks, p, "VAR", None), LAMBDA var_token :
        Bind(       IF var_token.ok
                    THEN consume(toks, var_token.pos, "IDENTIFIER", None)
                    ELSE var_token, LAMBDA id_token :
        Bind( IF id_token.ok
              THEN consume(toks, id_token.pos, "ASSIGN", "Expected '=' after identifier")
              ELSE id_token, LAMBDA eq :
    Bind(IF eq.ok THEN parse_expression(toks, eq.pos) ELSE eq, LAMBDA expr :
        Bind(   IF expr.ok
                THEN consume(toks, expr.pos, "SEMICOLON", "Expected ';' after declaration")
                ELSE expr, LAMBDA semi :
        IF semi.ok
        THEN Parsed(Declaration(id_token.node.value, expr.node, var_token.node), semi.pos)
        ELSE semi)))))

\* Parser.parse_assignment
parse_assignment(toks, p) ==
    Bind(consume(toks, p, "IDENTIFIER", None), LAMBDA id_token :
        Bind( IF id_token.ok
              THEN consume(toks, id_token.pos, "ASSIGN", "Expected '=' after identifier")
              ELSE id_token, LAMBDA eq :
    Bind(IF eq.ok THEN parse_expression(toks, eq.pos) ELSE eq, LAMBDA expr :
        Bind(   IF expr.ok
                THEN consume(toks, expr.pos, "SEMICOLON", "Expected ';' after assignment")
                ELSE expr, LAMBDA semi :
        IF semi.ok
        THEN Parsed(Assignment(id_token.node.value, expr.node, id_token.node), semi.pos)
        ELSE semi))))

\* Parser.parse_print
parse_print(toks, p) ==
    Bind(consume(toks, p, "PRINT", None), LAMBDA print_token :
        Bind(   IF print_token.ok THEN parse_expression(toks, print_token.pos)
                ELSE print_token, LAMBDA expr :
        Bind(   IF expr.ok
                THEN consume(toks, expr.pos, "SEMICOLON", "Expected ';' after print")
                ELSE expr, LAMBDA semi :
        IF semi.ok THEN Parsed(PrintStmt(expr.node, print_token.node), semi.pos)
        ELSE semi)))

\* The block loop shared by parse_if, parse_while and parse_for:
\*   while current_token().type != RBRACE: stmt = parse_statement(); ...
\* followed by consume(RBRACE).  Returns the block as its node.
parse_block(toks, p, block) ==
    IF current_token(toks, p).type # "RBRACE"
    THEN Bind(parse_statement(toks, p), LAMBDA stmt :
         IF ~stmt.ok THEN stmt
         ELSE parse_block(toks, stmt.pos,
                          IF stmt.none THEN block ELSE Append(block, stmt.node)))
    ELSE Bind(consume(toks, p, "RBRACE", None), LAMBDA close :
         IF close.ok THEN Parsed(block, close.pos) ELSE close)

\* The header `( condition ) {` shared by parse_if and parse_while.
parse_condition(toks, p, after) ==
    Bind(consume(toks, p, "LPAREN", "Expected '(' after '" \o after \o "'"), LAMBDA lp :
    Bind(IF lp.ok THEN parse_expression(toks, lp.pos) ELSE lp, LAMBDA condition :
        Bind( IF condition.ok
              THEN consume(toks, condition.pos, "RPAREN", "Expected ')' after condition")
              ELSE condition, LAMBDA rp :
        Bind( IF rp.ok
              THEN consume(toks, rp.pos, "LBRACE", "Expected '{' after condition")
              ELSE rp, LAMBDA lb :
        IF lb.ok THEN Parsed(condition.node, lb.pos) ELSE lb))))

\* Parser.parse_if
parse_if(toks, p) ==
    Bind(consume(toks, p, "IF", None), LAMBDA if_token :
        Bind(        IF if_token.ok THEN parse_condition(toks, if_token.pos, "if")
                     ELSE if_token, LAMBDA condition :
        Bind(         IF condition.ok THEN parse_block(toks, condition.pos, <<>>)
                      ELSE condition, LAMBDA then_block :
        IF ~then_block.ok THEN then_block
        ELSE IF current_token(toks, then_block.pos).type = "ELSE"
        THEN Bind(consume(toks, then_block.pos, "ELSE", None), LAMBDA el :
             Bind(consume(toks, el.pos, "LBRACE", "Expected '{' after 'else'"), LAMBDA lb :
             Bind(IF lb.ok THEN parse_block(toks, lb.pos, <<>>) ELSE lb, LAMBDA else_block :
                 IF else_block.ok
                 THEN Parsed(IfStmt(condition.node, then_block.node, TRUE,
                                    else_block.node, if_token.node), else_block.pos)
                 ELSE else_block)))
        ELSE Parsed(IfStmt(condition.node, then_block.node, FALSE, <<>>,
                           if_token.node), then_block.pos))))

\* Parser.parse_while
parse_while(toks, p) ==
    Bind(consume(toks, p, "WHILE", None), LAMBDA while_token :
        Bind(        IF while_token.ok
                     THEN parse_condition(toks, while_token.pos, "while")
                     ELSE while_token, LAMBDA condition :
        Bind(    IF condition.ok THEN parse_block(toks, condition.pos, <<>>)
                 ELSE condition, LAMBDA block :
        IF block.ok
        THEN Parsed(WhileStmt(condition.node, block.node, while_token.node), block.pos)
        ELSE block)))

\* `IDENTIFIER = expression` of parse_for's init and update.
parse_for_assignment(toks, p) ==
    Bind(consume(toks, p, "IDENTIFIER", None), LAMBDA id :
    Bind(IF id.ok THEN consume(toks, id.pos, "ASSIGN", None) ELSE id, LAMBDA eq :
    Bind(IF eq.ok THEN parse_expression(toks, eq.pos) ELSE eq, LAMBDA expr :
        IF expr.ok THEN Parsed(Assignment(id.node.value, expr.node, id.node), expr.pos)
        ELSE expr)))

\* Parser.parse_for
parse_for(toks, p) ==
    Bind(consume(toks, p, "FOR", None), LAMBDA for_token :
        Bind( IF for_token.ok
              THEN consume(toks, for_token.pos, "LPAREN", "Expected '(' after 'for'")
              ELSE for_token, LAMBDA lp :
    Bind(IF lp.ok THEN parse_for_assignment(toks, lp.pos) ELSE lp, LAMBDA init :
    Bind(IF init.ok THEN consume(toks, init.pos, "SEMICOLON", None) ELSE init, LAMBDA s1 :
    Bind(IF s1.ok THEN parse_expression(toks, s1.pos) ELSE s1, LAMBDA condition :
        Bind( IF condition.ok THEN consume(toks, condition.pos, "SEMICOLON", None)
              ELSE condition, LAMBDA s2 :
    Bind(IF s2.ok THEN parse_for_assignment(toks, s2.pos) ELSE s2, LAMBDA update :
    Bind(IF update.ok THEN consume(toks, update.pos, "RPAREN", None) ELSE update, LAMBDA rp :
        Bind( IF rp.ok
              THEN consume(toks, rp.pos, "LBRACE", "Expected '{' after for loop")
              ELSE rp, LAMBDA lb :
    Bind(IF lb.ok THEN parse_block(toks, lb.pos, <<>>) ELSE lb, LAMBDA block :
        IF block.ok
        THEN Parsed(ForStmt(init.node, condition.node, update.node, block.node,
                            for_token.node), block.pos)
        ELSE block))))))))))

\* The argument loop of Parser.parse_pattern: expression (',' expression)*
parse_arguments(toks, p, args) ==
    Bind(parse_expression(toks, p), LAMBDA arg :
    IF ~arg.ok THEN arg
    ELSE IF current_token(toks, arg.pos).type = "COMMA"
    THEN parse_arguments(toks, arg.pos + 1, Append(args, arg.node))
    ELSE Parsed(Append(args, arg.node), arg.pos))

\* Parser.parse_pattern
parse_pattern(toks, p) ==
    Bind(current_token(toks, p), LAMBDA token :
        Bind(           CASE token.type = "FIBONACCI" -> "fibonacci"
                          [] token.type = "FACTORIAL" -> "factorial"
                          [] token.type = "SEQUENCE" -> "sequence"
                          [] OTHER -> None, LAMBDA pattern_type :
        Bind( IF pattern_type = None THEN Parsed(token, p)
              ELSE consume(toks, p, token.type, None), LAMBDA kw :
        Bind( consume(toks, kw.pos, "LPAREN",
                      "Expected '(' after '" \o pattern_type \o "'"), LAMBDA lp :
    Bind(IF lp.ok THEN consume(toks, lp.pos, "IDENTIFIER", None) ELSE lp, LAMBDA id_token :
        Bind(    IF id_token.ok
                 THEN consume(toks, id_token.pos, "COMMA", "Expected ',' after identifier")
                 ELSE id_token, LAMBDA comma :
    Bind(IF comma.ok THEN parse_arguments(toks, comma.pos, <<>>) ELSE comma, LAMBDA args :
        Bind( IF args.ok
              THEN consume(toks, args.pos, "RPAREN", "Expected ')' after arguments")
              ELSE args, LAMBDA rp :
        Bind(   IF rp.ok
                THEN consume(toks, rp.pos, "SEMICOLON",
                             "Expected ';' after pattern statement")
                ELSE rp, LAMBDA semi :
        IF semi.ok
        THEN Parsed(PatternStmt(pattern_type, id_token.node.value, args.node, token),
                    semi.pos)
        ELSE semi)))))))))

\* Parser.parse_statement
parse_statement(toks, p) ==
    Bind(current_token(toks, p), LAMBDA token :
    CASE token.type = "VAR" -> parse_declaration(toks, p)
      [] token.type = "PRINT" -> parse_print(toks, p)
      [] token.type = "IF" -> parse_if(toks, p)
      [] token.type = "WHILE" -> parse_while(toks, p)
      [] token.type = "FOR" -> parse_for(toks, p)
      [] token.type \in {"FIBONACCI", "FACTORIAL", "SEQUENCE"} -> parse_pattern(toks, p)
      [] token.type = "IDENTIFIER" -> parse_assignment(toks, p)
      [] token.type = "RBRACE" -> ParsedNone(p)
      [] OTHER -> error(toks, p, "Unexpected token: " \o token.type))

(***************************************************************************)
(* Semantic analyzer (Phase 3)                                             *)
(***************************************************************************)

\* A dict with no entries, and dict[key] = value.
EmptyDict == <<>>
Put(dict, key, value) == (key :> value) @@ dict

\* class SymbolType
SymbolType == [INTEGER |-> "INTEGER", STRING |-> "STRING", UNKNOWN |-> "UNKNOWN"]

Symbol(name, symbol_type, declared, initialized, line) ==
    [name |-> name, type |-> symbol_type, declared |-> declared,
     initialized |-> initialized, line |-> line]

\* What a visit of the analyzer hands back: the expression's type and the
\* symbol table after it, or the SemanticError it raised (table as left).
Typed(type, table) ==
    [ok |-> TRUE, type |-> type, symbols |-> table, error |-> Exception(None, "")]

SemanticError(msg, table) ==
    [ok |-> FALSE, type |-> SymbolType.UNKNOWN, symbols |-> table,
     error |-> Exception("SemanticError", msg)]

\* A declare that overwrites the entry of a declared name.
declare_overwriting(table, name, symbol_type, line) ==
    Typed(symbol_type,
          Put(table, name, Symbol(name, symbol_type, TRUE, FALSE, line)))

\* SymbolTable.declare: the entry is new, not initialized.
declare(table, name, symbol_type, line) ==
    IF name \in DOMAIN table
    THEN SemanticError("Variable '" \o name \o "' already declared at line "
                       \o IntToText(line), table)
    ELSE Typed(symbol_type,
               Put(table, name, Symbol(name, symbol_type, TRUE, FALSE, line)))

\* SymbolTable.lookup in the root scope (parent is None): found or not.
lookup(table, name) == name \in DOMAIN table

\* SemanticAnalyzer.visit_identifier
sem_visit_identifier(node, table) ==
    IF ~lookup(table, node.name)
    THEN SemanticError("Variable '" \o node.name \o "' not declared (line "
                       \o IntToText(node.line) \o ")", table)
    ELSE IF ~table[node.name].initialized
    THEN SemanticError("Variable '" \o node.name
                       \o "' used before initialization (line "
                       \o IntToText(node.line) \o ")", table)
    ELSE Typed(table[node.name].type, table)

RECURSIVE sem_visit_expression(_, _)

\* SemanticAnalyzer.visit_binary_op
sem_visit_binary_op(node, table) ==
    Bind(sem_visit_expression(node.left, table), LAMBDA left :
    Bind(sem_visit_expression(node.right, table), LAMBDA right :
        IF ~left.ok THEN left
        ELSE IF ~right.ok THEN right
        ELSE IF node.op \in {"==", "!=", "<", ">", "<=", ">="}
        THEN (IF left.type # right.type
              THEN SemanticError("Type mismatch in comparison: " \o left.type \o " "
                                 \o node.op \o " " \o right.type \o " (line "
                                 \o IntToText(node.line) \o ")", table)
              ELSE Typed(SymbolType.INTEGER, table))
        ELSE IF node.op \in {"+", "-", "*", "/", "%"}
        THEN (IF left.type # SymbolType.INTEGER \/ right.type # SymbolType.INTEGER
              THEN SemanticError("Arithmetic operation requires INTEGER operands, got "
                                 \o left.type \o " and " \o right.type \o " (line "
                                 \o IntToText(node.line) \o ")", table)
              ELSE Typed(SymbolType.INTEGER, table))
        ELSE Typed(SymbolType.UNKNOWN, table)))

\* SemanticAnalyzer.visit_unary_op
sem_visit_unary_op(node, table) ==
    Bind(sem_visit_expression(node.operand, table), LAMBDA operand :
    IF ~operand.ok THEN operand
    ELSE IF node.op = "-"
    THEN (IF operand.type # SymbolType.INTEGER
          THEN SemanticError("Unary minus requires INTEGER operand, got "
                             \o operand.type \o " (line " \o IntToText(node.line)
                             \o ")", table)
          ELSE Typed(SymbolType.INTEGER, table))
    ELSE operand)

\* SemanticAnalyzer.visit_expression
sem_visit_expression(node, table) ==
    CASE node.node = "Identifier" -> sem_visit_identifier(node, table)
      [] node.node = "Integer" -> Typed(SymbolType.INTEGER, table)
      [] node.node = "String" -> Typed(SymbolType.STRING, table)
      [] node.node = "BinaryOp" -> sem_visit_binary_op(node, table)
      [] node.node = "UnaryOp" -> sem_visit_unary_op(node, table)
      [] OTHER -> Typed(SymbolType.UNKNOWN, table)

\* SemanticAnalyzer.visit_declaration
sem_visit_declaration(node, table) ==
    Bind(sem_visit_expression(node.expression, table), LAMBDA expr :
    Bind(declare(table, node.identifier, expr.type, node.line), LAMBDA declared :
        IF ~expr.ok THEN expr
        ELSE IF ~declared.ok THEN declared
        ELSE Typed(expr.type,
                   [declared.symbols EXCEPT ![node.identifier].initialized = TRUE])))

\* SemanticAnalyzer.visit_assignment
sem_visit_assignment(node, table) ==
    IF ~lookup(table, node.identifier)
    THEN SemanticError("Variable '" \o node.identifier \o "' not declared (line "
                       \o IntToText(node.line) \o ")", table)
    ELSE Bind(table[node.identifier], LAMBDA symbol :
         Bind(sem_visit_expression(node.expression, table), LAMBDA expr :
             IF ~expr.ok THEN expr
             ELSE IF symbol.type # expr.type /\ expr.type # SymbolType.UNKNOWN
             THEN SemanticError("Type mismatch: '" \o node.identifier \o "' is "
                                \o symbol.type \o ", but expression is " \o expr.type
                                \o " (line " \o IntToText(node.line) \o ")", table)
             ELSE Typed(expr.type,
                        [table EXCEPT ![node.identifier].initialized = TRUE])))

RECURSIVE sem_visit_program(_, _)

\* SemanticAnalyzer.visit_statement: only declarations, assignments and a
\* nested Program are visited; every other statement kind is passed over.
sem_visit_statement(node, table) ==
    CASE node.node = "Declaration" -> sem_visit_declaration(node, table)
      [] node.node = "Assignment" -> sem_visit_assignment(node, table)
      [] node.node = "Program" -> sem_visit_program(node.statements, table)
      [] OTHER -> Typed(SymbolType.UNKNOWN, table)

\* SemanticAnalyzer.visit_program over the statements stmts
sem_visit_program(stmts, table) ==
    IF Len(stmts) = 0 THEN Typed(SymbolType.UNKNOWN, table)
    ELSE Bind(sem_visit_statement(Head(stmts), table), LAMBDA first :
         IF ~first.ok THEN first
         ELSE sem_visit_program(Tail(stmts), first.symbols))

\* SemanticAnalyzer().analyze(ast): the one error caught is raised again,
\* its message the join of the one-element list self.errors.
analyze(program) == sem_visit_program(program.statements, EmptyDict)

(***************************************************************************)
(* Intermediate code generator (Phase 4)                                   *)
(***************************************************************************)

TACInstruction(op, arg1, arg2, res) ==
    [op |-> op, arg1 |-> arg1, arg2 |-> arg2, result |-> res]

\* The generator's state: instructions, temp_counter, label_counter; value
\* is what the last visit_expression / new_temp / new_label returned.
Generator(instructions, temp_counter, label_counter, value) ==
    [instructions |-> instructions, temp_counter |-> temp_counter,
     label_counter |-> label_counter, value |-> value]

\* The prefixes of the names new_temp and new_label make.
TempPrefix == "t"
LabelPrefix == "L"

\* IntermediateCodeGenerator.new_temp
new_temp(g) ==
    [g EXCEPT !.value = TempPrefix \o IntToText(g.temp_counter),
              !.temp_counter = g.temp_counter + 1]

\* A new_label that does not count: every label is L0.
new_label_not_counting(g) ==
    [g EXCEPT !.value = LabelPrefix \o IntToText(g.label_counter)]

\* IntermediateCodeGenerator.new_label
new_label(g) ==
    [g EXCEPT !.value = LabelPrefix \o IntToText(g.label_counter),
              !.label_counter = g.label_counter + 1]

\* IntermediateCodeGenerator.emit
emit(g, op, arg1, arg2, res) ==
    [g EXCEPT !.instructions = Append(g.instructions, TACInstruction(op, arg1, arg2, res))]

\* op_map of visit_binary_op; an operator not in it maps to itself.
op_map(op) ==
    CASE op = "+" -> "add"
      [] op = "-" -> "sub"
      [] op = "*" -> "mul"
      [] op = "/" -> "div"
      [] op = "%" -> "mod"
      [] op = "==" -> "eq"
      [] op = "!=" -> "ne"
      [] op = "<" -> "lt"
      [] op = ">" -> "gt"
      [] op = "<=" -> "le"
      [] op = ">=" -> "ge"
      [] OTHER -> op

RECURSIVE gen_visit_expression(_, _)

\* IntermediateCodeGenerator.visit_binary_op
gen_visit_binary_op(g, node) ==
    Bind(gen_visit_expression(g, node.left), LAMBDA left :
    Bind(gen_visit_expression(left, node.right), LAMBDA right :
    Bind(new_temp(right), LAMBDA temp :
        [emit(temp, op_map(node.op), left.value, right.value, temp.value)
            EXCEPT !.value = temp.value])))

\* IntermediateCodeGenerator.visit_unary_op
gen_visit_unary_op(g, node) ==
    Bind(gen_visit_expression(g, node.operand), LAMBDA operand :
    Bind(new_temp(operand), LAMBDA temp :
        [emit(temp, IF node.op = "-" THEN "neg" ELSE node.op,
              operand.value, None, temp.value)
            EXCEPT !.value = temp.value]))

\* IntermediateCodeGenerator.visit_expression
gen_visit_expression(g, node) ==
    CASE node.node = "Identifier" -> [g EXCEPT !.value = node.name]
      [] node.node = "Integer" -> [g EXCEPT !.value = IntToText(node.value)]
      [] node.node = "String" -> [g EXCEPT !.value = "\"" \o node.text \o "\""]
      [] node.node = "BinaryOp" -> gen_visit_binary_op(g, node)
      [] node.node = "UnaryOp" -> gen_visit_unary_op(g, node)
      [] OTHER -> [g EXCEPT !.value = "unknown"]

\* IntermediateCodeGenerator.visit_declaration
gen_visit_declaration(g, node) ==
    Bind(gen_visit_expression(g, node.expression), LAMBDA res :
    emit(res, "=", res.value, None, node.identifier))

\* IntermediateCodeGenerator.visit_assignment
gen_visit_assignment(g, node) ==
    Bind(gen_visit_expression(g, node.expression), LAMBDA res :
    emit(res, "=", res.value, None, node.identifier))

\* IntermediateCodeGenerator.visit_print
gen_visit_print(g, node) ==
    Bind(gen_visit_expression(g, node.expression), LAMBDA value :
    emit(value, "print", value.value, None, None))

RECURSIVE gen_visit_arguments(_, _, _)
\* The list comprehension of visit_pattern: the operands of args, in order;
\* value is their list.
gen_visit_arguments(g, args, operands) ==
    IF Len(args) = 0 THEN [g EXCEPT !.value = operands]
    ELSE Bind(gen_visit_expression(g, Head(args)), LAMBDA arg :
         gen_visit_arguments(arg, Tail(args), Append(operands, arg.value)))

RECURSIVE Join(_, _)
\* sep.join(texts)
Join(sep, texts) ==
    IF Len(texts) = 0 THEN ""
    ELSE IF Len(texts) = 1 THEN texts[1]
    ELSE texts[1] \o sep \o Join(sep, Tail(texts))

\* IntermediateCodeGenerator.visit_pattern
gen_visit_pattern(g, node) ==
    Bind(gen_visit_arguments(g, node.args, <<>>), LAMBDA args :
    emit(args, node.pattern_type, Join(",", args.value), None, node.identifier))

RECURSIVE gen_visit_statement(_, _)
RECURSIVE gen_visit_statements(_, _)

\* A visit_if that emits no `goto end` behind the then block.
gen_visit_if_without_goto(g, node) ==
    Bind(gen_visit_expression(g, node.condition), LAMBDA condition_temp :
    Bind(new_label(condition_temp), LAMBDA else_label :
    Bind(new_label(else_label), LAMBDA end_label :
    Bind(node.has_else /\ Len(node.else_block) > 0, LAMBDA else_block :
        Bind(   emit(end_label, "if_false", condition_temp.value,
                     IF else_block THEN else_label.value ELSE end_label.value, None), LAMBDA jump :
    Bind(gen_visit_statements(jump, node.then_block), LAMBDA then_block :
        Bind(   IF else_block
                THEN gen_visit_statements(
                         emit(then_block, "label", else_label.value, None, None),
                         node.else_block)
                ELSE then_block, LAMBDA rest :
        emit(rest, "label", end_label.value, None, None))))))))

\* IntermediateCodeGenerator.visit_if; `if node.else_block` is false for
\* no else and for an else with no statement.
gen_visit_if(g, node) ==
    Bind(gen_visit_expression(g, node.condition), LAMBDA condition_temp :
    Bind(new_label(condition_temp), LAMBDA else_label :
    Bind(new_label(else_label), LAMBDA end_label :
    Bind(node.has_else /\ Len(node.else_block) > 0, LAMBDA else_block :
        Bind(   emit(end_label, "if_false", condition_temp.value,
                     IF else_block THEN else_label.value ELSE end_label.value, None), LAMBDA jump :
    Bind(gen_visit_statements(jump, node.then_block), LAMBDA then_block :
        Bind(   IF else_block
                THEN gen_visit_statements(
                         emit(emit(then_block, "goto", end_label.value, None, None),
                              "label", else_label.value, None, None),
                         node.else_block)
                ELSE then_block, LAMBDA rest :
        emit(rest, "label", end_label.value, None, None))))))))

\* IntermediateCodeGenerator.visit_while
gen_visit_while(g, node) ==
    Bind(new_label(g), LAMBDA start_label :
    Bind(new_label(start_label), LAMBDA end_label :
    Bind(emit(end_label, "label", start_label.value, None, None), LAMBDA start :
    Bind(gen_visit_expression(start, node.condition), LAMBDA condition_temp :
        Bind(   emit(condition_temp, "if_false", condition_temp.value,
                     end_label.value, None), LAMBDA jump :
    Bind(gen_visit_statements(jump, node.block), LAMBDA block :
        emit(emit(block, "goto", start_label.value, None, None),
             "label", end_label.value, None, None)))))))

\* A visit_for that lowers the update in front of the body.
gen_visit_for_update_first(g, node) ==
    Bind(new_label(g), LAMBDA start_label :
    Bind(new_label(start_label), LAMBDA end_label :
    Bind(gen_visit_assignment(end_label, node.init), LAMBDA init :
    Bind(emit(init, "label", start_label.value, None, None), LAMBDA start :
    Bind(gen_visit_expression(start, node.condition), LAMBDA condition_temp :
        Bind(   emit(condition_temp, "if_false", condition_temp.value,
                     end_label.value, None), LAMBDA jump :
    Bind(gen_visit_assignment(jump, node.update), LAMBDA update :
    Bind(gen_visit_statements(update, node.block), LAMBDA block :
        emit(emit(block, "goto", start_label.value, None, None),
             "label", end_label.value, None, None)))))))))

\* IntermediateCodeGenerator.visit_for
gen_visit_for(g, node) ==
    Bind(new_label(g), LAMBDA start_label :
    Bind(new_label(start_label), LAMBDA end_label :
    Bind(gen_visit_assignment(end_label, node.init), LAMBDA init :
    Bind(emit(init, "label", start_label.value, None, None), LAMBDA start :
    Bind(gen_visit_expression(start, node.condition), LAMBDA condition_temp :
        Bind(   emit(condition_temp, "if_false", condition_temp.value,
                     end_label.value, None), LAMBDA jump :
    Bind(gen_visit_statements(jump, node.block), LAMBDA block :
    Bind(gen_visit_assignment(block, node.update), LAMBDA update :
        emit(emit(update, "goto", start_label.value, None, None),
             "label", end_label.value, None, None)))))))))

\* IntermediateCodeGenerator.visit_statement
gen_visit_statement(g, node) ==
    CASE node.node = "Declaration" -> gen_visit_declaration(g, node)
      [] node.node = "Assignment" -> gen_visit_assignment(g, node)
      [] node.node = "PrintStmt" -> gen_visit_print(g, node)
      [] node.node = "IfStmt" -> gen_visit_if(g, node)
      [] node.node = "WhileStmt" -> gen_visit_while(g, node)
      [] node.node = "ForStmt" -> gen_visit_for(g, node)
      [] node.node = "PatternStmt" -> gen_visit_pattern(g, node)
      [] OTHER -> g

\* `for stmt in ...: self.visit_statement(stmt)`: visit_program, and the
\* block loops of visit_if, visit_while and visit_for.
gen_visit_statements(g, stmts) ==
    IF Len(stmts) = 0 THEN g
    ELSE gen_visit_statements(gen_visit_statement(g, Head(stmts)), Tail(stmts))

\* IntermediateCodeGenerator().generate(ast)
generate(program) ==
    gen_visit_statements(Generator(<<>>, 0, 0, None), program.statements).instructions

(***************************************************************************)
(* Optimizer (Phase 5)                                                     *)
(***************************************************************************)

\* a // b and a % b of Python ints, b # 0: the quotient is rounded down.
FloorDiv(a, b) == IF b > 0 THEN a \div b ELSE (0 - a) \div (0 - b)
PyMod(a, b) == a - b * FloorDiv(a, b)

\* The quotient rounded towards zero.
TruncDiv(a, b) ==
    IF (a < 0) = (b < 0) THEN FloorDiv(a, b) ELSE 0 - FloorDiv(0 - a, b)

\* `del dict[key]`
Remove(dict, key) == [k \in DOMAIN dict \ {key} |-> dict[k]]

\* An Optional[int]: the int n, or None.
Some(n) == [none |-> FALSE, value |-> n]
Nothing == [none |-> TRUE, value |-> 0]

\* Optimizer.is_constant
is_constant(consts, value) ==
    IF value = None THEN FALSE
    ELSE IF PyInt(value).ok THEN TRUE
    ELSE value \in DOMAIN consts

\* Optimizer.get_constant_value
get_constant_value(consts, value) ==
    IF value = None THEN Nothing
    ELSE IF PyInt(value).ok THEN Some(PyInt(value).value)
    ELSE IF value \in DOMAIN consts THEN Some(consts[value])
    ELSE Nothing

\* fold_arithmetic with the operands of `add` subtracted: a fault in the
\* folded value, against which the folded list of C3 is checked.
fold_arithmetic_add_as_sub(consts, instr) ==
    Bind(get_constant_value(consts, instr.arg1), LAMBDA arg1_val :
    Bind(get_constant_value(consts, instr.arg2), LAMBDA arg2_val :
        IF arg1_val.none \/ arg2_val.none THEN Nothing
        ELSE CASE instr.op \in {"add", "sub"} -> Some(arg1_val.value - arg2_val.value)
               [] instr.op = "mul" -> Some(arg1_val.value * arg2_val.value)
               [] instr.op = "div" ->
                    IF arg2_val.value = 0 THEN Nothing
                    ELSE Some(FloorDiv(arg1_val.value, arg2_val.value))
               [] instr.op = "mod" ->
                    IF arg2_val.value = 0 THEN Nothing
                    ELSE Some(PyMod(arg1_val.value, arg2_val.value))
               [] OTHER -> Nothing))

\* fold_arithmetic without the test for a zero divisor: a division or
\* modulo by the constant 0 folds to 0; C4 is checked against it.
fold_arithmetic_zero_divisor(consts, instr) ==
    Bind(get_constant_value(consts, instr.arg1), LAMBDA arg1_val :
    Bind(get_constant_value(consts, instr.arg2), LAMBDA arg2_val :
        IF arg1_val.none \/ arg2_val.none THEN Nothing
        ELSE CASE instr.op = "add" -> Some(arg1_val.value + arg2_val.value)
               [] instr.op = "sub" -> Some(arg1_val.value - arg2_val.value)
               [] instr.op = "mul" -> Some(arg1_val.value * arg2_val.value)
               [] instr.op = "div" ->
                    IF arg2_val.value = 0 THEN Some(0)
                    ELSE Some(FloorDiv(arg1_val.value, arg2_val.value))
               [] instr.op = "mod" ->
                    IF arg2_val.value = 0 THEN Some(0)
                    ELSE Some(PyMod(arg1_val.value, arg2_val.value))
               [] OTHER -> Nothing))

\* fold_arithmetic with the quotient rounded towards zero and the remainder
\* taking the sign of the dividend, as C and Java compute them: the fault
\* against which the agreement of C30 is checked.
fold_arithmetic_truncating(consts, instr) ==
    Bind(get_constant_value(consts, instr.arg1), LAMBDA arg1_val :
    Bind(get_constant_value(consts, instr.arg2), LAMBDA arg2_val :
        IF arg1_val.none \/ arg2_val.none THEN Nothing
        ELSE CASE instr.op = "add" -> Some(arg1_val.value + arg2_val.value)
               [] instr.op = "sub" -> Some(arg1_val.value - arg2_val.value)
               [] instr.op = "mul" -> Some(arg1_val.value * arg2_val.value)
               [] instr.op = "div" ->
                    IF arg2_val.value = 0 THEN Nothing
                    ELSE Some(TruncDiv(arg1_val.value, arg2_val.value))
               [] instr.op = "mod" ->
                    IF arg2_val.value = 0 THEN Nothing
                    ELSE Some(arg1_val.value
                              - arg2_val.value
                                * TruncDiv(arg1_val.value, arg2_val.value))
               [] OTHER -> Nothing))

\* Optimizer.fold_arithmetic
fold_arithmetic(consts, instr) ==
    Bind(get_constant_value(consts, instr.arg1), LAMBDA arg1_val :
    Bind(get_constant_value(consts, instr.arg2), LAMBDA arg2_val :
        IF arg1_val.none \/ arg2_val.none THEN Nothing
        ELSE CASE instr.op = "add" -> Some(arg1_val.value + arg2_val.value)
               [] instr.op = "sub" -> Some(arg1_val.value - arg2_val.value)
               [] instr.op = "mul" -> Some(arg1_val.value * arg2_val.value)
               [] instr.op = "div" ->
                    IF arg2_val.value = 0 THEN Nothing
                    ELSE Some(FloorDiv(arg1_val.value, arg2_val.value))
               [] instr.op = "mod" ->
                    IF arg2_val.value = 0 THEN Nothing
                    ELSE Some(PyMod(arg1_val.value, arg2_val.value))
               [] OTHER -> Nothing))

\* Optimizer.fold_comparison
fold_comparison(consts, instr) ==
    Bind(get_constant_value(consts, instr.arg1), LAMBDA arg1_val :
    Bind(get_constant_value(consts, instr.arg2), LAMBDA arg2_val :
    Bind(arg1_val.value, LAMBDA a :
    Bind(arg2_val.value, LAMBDA b :
        IF arg1_val.none \/ arg2_val.none THEN Nothing
        ELSE CASE instr.op = "eq" -> Some(IF a = b THEN 1 ELSE 0)
               [] instr.op = "ne" -> Some(IF a # b THEN 1 ELSE 0)
               [] instr.op = "lt" -> Some(IF a < b THEN 1 ELSE 0)
               [] instr.op = "gt" -> Some(IF a > b THEN 1 ELSE 0)
               [] instr.op = "le" -> Some(IF a <= b THEN 1 ELSE 0)
               [] instr.op = "ge" -> Some(IF a >= b THEN 1 ELSE 0)
               [] OTHER -> Nothing))))

\* Optimizer.fold_unary
fold_unary(consts, instr) ==
    Bind(get_constant_value(consts, instr.arg1), LAMBDA arg_val :
    IF arg_val.none THEN Nothing
    ELSE IF instr.op = "neg" THEN Some(0 - arg_val.value)
    ELSE Nothing)

\* The optimizer while constant_folding runs: the list `optimized` built so
\* far and self.constants.
Folding(instructions, consts) == [optimized |-> instructions, constants |-> consts]

\* A folded operation: the result is recorded and the instruction replaced
\* by the assignment of the constant; an unfolded one is kept.
folded_or_kept(st, instr, res) ==
    IF ~res.none
    THEN Folding(Append(st.optimized,
                        TACInstruction("=", IntToText(res.value), None, instr.result)),
                 Put(st.constants, instr.result, res.value))
    ELSE Folding(Append(st.optimized, instr), st.constants)

\* The body of the for loop of Optimizer.constant_folding for one instruction.
constant_folding_step(st, instr) ==
    CASE instr.op \in {"label", "goto", "if_false", "print"} ->
            Folding(Append(st.optimized, instr), st.constants)
      [] instr.op \in {"add", "sub", "mul", "div", "mod"} ->
            folded_or_kept(st, instr, fold_arithmetic(st.constants, instr))
      [] instr.op \in {"eq", "ne", "lt", "gt", "le", "ge"} ->
            folded_or_kept(st, instr, fold_comparison(st.constants, instr))
      [] instr.op = "=" ->
            IF is_constant(st.constants, instr.arg1)
            THEN Folding(Append(st.optimized, instr),
                         Put(st.constants, instr.result,
                             get_constant_value(st.constants, instr.arg1).value))
            ELSE Folding(Append(st.optimized, instr),
                         IF instr.result \in DOMAIN st.constants
                         THEN Remove(st.constants, instr.result)
                         ELSE st.constants)
      [] instr.op = "neg" ->
            folded_or_kept(st, instr, fold_unary(st.constants, instr))
      [] OTHER -> Folding(Append(st.optimized, instr), st.constants)

RECURSIVE constant_folding_loop(_, _, _, _)
\* The for loop of Optimizer.constant_folding over instructions[lo..hi], in
\* list order, by halves.
constant_folding_loop(instructions, lo, hi, st) ==
    IF lo > hi THEN st
    ELSE IF lo = hi THEN constant_folding_step(st, instructions[lo])
    ELSE Bind(constant_folding_loop(instructions, lo, (lo + hi) \div 2, st),
              LAMBDA half :
                  constant_folding_loop(instructions, (lo + hi) \div 2 + 1, hi, half))

\* Optimizer.constant_folding: the list it returns and self.constants after.
constant_folding(instructions) ==
    constant_folding_loop(instructions, 1, Len(instructions),
                          Folding(<<>>, EmptyDict))

\* Python's truth of an Optional[str]: neither None nor empty.
Truthy(text) == text # None /\ text # ""

RECURSIVE Split(_, _)
\* text.split(sep) for a one-character sep.
Split(text, sep) ==
    Bind(IndexOf(sep, text, 1), LAMBDA k :
    IF k = 0 THEN <<text>>
    ELSE <<Slice(text, 1, k - 1)>> \o Split(Slice(text, k + 1, Len(text)), sep))

\* The names the argument list arg1 of a pattern instruction marks as used:
\* every stripped argument that is not empty and not an int literal.
pattern_used_args(arg1) ==
    Bind(Split(arg1, ","), LAMBDA args :
    {Strip(args[k]) : k \in {j \in 1..Len(args) :
                              /\ Strip(args[j]) # ""
                              /\ ~PyInt(Strip(args[j])).ok}})

\* The body of the backward loop of Optimizer.dead_code_elimination for one
\* instruction: used_vars after it.
used_vars_step(used, instr) ==
    CASE instr.op \in {"print", "if_false"} ->
            IF Truthy(instr.arg1) THEN used \cup {instr.arg1} ELSE used
      [] instr.op \in {"fibonacci", "factorial", "sequence"} ->
            used \cup (IF Truthy(instr.result) THEN {instr.result} ELSE {})
                 \cup (IF Truthy(instr.arg1) THEN pattern_used_args(instr.arg1) ELSE {})
      [] instr.op \in {"add", "sub", "mul", "div", "mod",
                       "eq", "ne", "lt", "gt", "le", "ge", "neg"} ->
            used \cup (IF Truthy(instr.arg1) THEN {instr.arg1} ELSE {})
                 \cup (IF Truthy(instr.arg2) THEN {instr.arg2} ELSE {})
      [] instr.op = "=" ->
            IF instr.result \in used /\ Truthy(instr.arg1)
            THEN used \cup {instr.arg1}
            ELSE used
      [] OTHER -> used

RECURSIVE used_vars_loop(_, _, _, _)
\* The backward loop over instructions[lo..hi], from hi down to lo, by halves.
used_vars_loop(instructions, lo, hi, used) ==
    IF lo > hi THEN used
    ELSE IF lo = hi THEN used_vars_step(used, instructions[lo])
    ELSE Bind(used_vars_loop(instructions, (lo + hi) \div 2 + 1, hi, used),
              LAMBDA half :
                  used_vars_loop(instructions, lo, (lo + hi) \div 2, half))

\* The forward test without the rule for the temporary prefix: an assignment
\* is kept only if its result is used; C5 is checked against it.
retained_only_if_used(used, instr) ==
    CASE instr.op \in {"label", "goto", "if_false", "print",
                       "fibonacci", "factorial", "sequence"} -> "keep"
      [] OTHER -> IF instr.result \in used THEN "keep" ELSE "drop"

\* The test of the forward loop of Optimizer.dead_code_elimination: "keep",
\* "drop", or "raise" where result.startswith is called on None.
retained(used, instr) ==
    CASE instr.op \in {"label", "goto", "if_false", "print",
                       "fibonacci", "factorial", "sequence"} -> "keep"
      [] instr.op = "=" ->
            IF instr.result \in used THEN "keep"
            ELSE IF instr.result = None THEN "raise"
            ELSE IF StartsWith(instr.result, "t") THEN "keep"
            ELSE "drop"
      [] OTHER -> IF instr.result \in used THEN "keep" ELSE "drop"

\* Optimizer.dead_code_elimination: [ok, optimized, used_vars, error]; the
\* forward loop appends the retained instructions in list order and stops
\* at the first one that raises.
dead_code_elimination(instructions) ==
    Bind(used_vars_loop(instructions, 1, Len(instructions), {}), LAMBDA used :
        Bind(      {k \in 1..Len(instructions) :
                        retained(used, instructions[k]) = "raise"}, LAMBDA raising :
        IF raising # {}
        THEN [ok |-> FALSE, optimized |-> <<>>, used_vars |-> used,
              error |-> Exception("AttributeError",
                           "'NoneType' object has no attribute 'startswith'")]
        ELSE [ok |-> TRUE,
              optimized |-> SelectSeq(instructions,
                                LAMBDA instr : retained(used, instr) = "keep"),
              used_vars |-> used,
              error |-> Exception(None, "")]))

(***************************************************************************)
(* Code generator (Phase 6): the TAC interpreter                           *)
(***************************************************************************)

\* The Python values the interpreter holds: int, str, list of int, None.
IntValue(n) == [i |-> n]
StrValue(text) == [s |-> text]
ListValue(items) == [l |-> items]
NoneValue == [none |-> TRUE]

IsInt(v) == "i" \in DOMAIN v
IsStr(v) == "s" \in DOMAIN v
IsList(v) == "l" \in DOMAIN v

\* type(v).__name__
type_name(v) ==
    IF IsInt(v) THEN "int"
    ELSE IF IsStr(v) THEN "str"
    ELSE IF IsList(v) THEN "list"
    ELSE "NoneType"

\* What an operation of the interpreter hands back: its value, or the
\* exception it raised.
Value(v) == [ok |-> TRUE, value |-> v, error |-> Exception(None, "")]
Raise(kind, msg) == [ok |-> FALSE, value |-> NoneValue, error |-> Exception(kind, msg)]

Unsupported(op, a, b) ==
    Raise("TypeError", "unsupported operand type(s) for " \o op \o ": '"
                       \o type_name(a) \o "' and '" \o type_name(b) \o "'")

RECURSIVE ListText(_)
\* ", ".join of the reprs of the ints of a list
ListText(items) ==
    IF Len(items) = 0 THEN ""
    ELSE IF Len(items) = 1 THEN IntToText(items[1])
    ELSE ListText(SubSeq(items, 1, Len(items) \div 2)) \o ", "
         \o ListText(SubSeq(items, (Len(items) \div 2) + 1, Len(items)))

\* str(v)
PyStr(v) ==
    IF IsInt(v) THEN IntToText(v.i)
    ELSE IF IsStr(v) THEN v.s
    ELSE IF IsList(v) THEN "[" \o ListText(v.l) \o "]"
    ELSE "None"

\* int(v): a str is parsed (the texts of the model need no escape in repr).
int(v) ==
    IF IsInt(v) THEN Value(v)
    ELSE IF IsStr(v)
    THEN (IF PyInt(v.s).ok THEN Value(IntValue(PyInt(v.s).value))
          ELSE Raise("ValueError",
                     "invalid literal for int() with base 10: '" \o v.s \o "'"))
    ELSE Raise("TypeError",
               "int() argument must be a string, a bytes-like object or a real number, not '"
               \o type_name(v) \o "'")

RECURSIVE Repeat(_, _)
\* seq * n for a str or a list seq, by halves; empty for n <= 0.
Repeat(seq, n) ==
    IF n <= 0 THEN SubSeq(seq, 1, 0)
    ELSE IF n = 1 THEN seq
    ELSE Repeat(seq, n \div 2) \o Repeat(seq, n - (n \div 2))

\* a + b
py_add(a, b) ==
    IF IsInt(a) /\ IsInt(b) THEN Value(IntValue(a.i + b.i))
    ELSE IF IsStr(a) /\ IsStr(b) THEN Value(StrValue(a.s \o b.s))
    ELSE IF IsList(a) /\ IsList(b) THEN Value(ListValue(a.l \o b.l))
    ELSE IF IsStr(a) \/ IsList(a)
    THEN Raise("TypeError", "can only concatenate " \o type_name(a) \o " (not \""
                            \o type_name(b) \o "\") to " \o type_name(a))
    ELSE Unsupported("+", a, b)

\* a - b
py_sub(a, b) ==
    IF IsInt(a) /\ IsInt(b) THEN Value(IntValue(a.i - b.i))
    ELSE Unsupported("-", a, b)

\* a * b: a product of ints, or the repetition of a str or list.
py_mul(a, b) ==
    IF IsInt(a) /\ IsInt(b) THEN Value(IntValue(a.i * b.i))
    ELSE IF IsStr(a) /\ IsInt(b) THEN Value(StrValue(Repeat(a.s, b.i)))
    ELSE IF IsInt(a) /\ IsStr(b) THEN Value(StrValue(Repeat(b.s, a.i)))
    ELSE IF IsList(a) /\ IsInt(b) THEN Value(ListValue(Repeat(a.l, b.i)))
    ELSE IF IsInt(a) /\ IsList(b) THEN Value(ListValue(Repeat(b.l, a.i)))
    ELSE IF IsStr(a) \/ IsList(a)
    THEN Raise("TypeError", "can't multiply sequence by non-int of type '"
                            \o type_name(b) \o "'")
    ELSE IF IsStr(b) \/ IsList(b)
    THEN Raise("TypeError", "can't multiply sequence by non-int of type '"
                            \o type_name(a) \o "'")
    ELSE Unsupported("*", a, b)

\* a // b, b not the int 0
py_floordiv(a, b) ==
    IF IsInt(a) /\ IsInt(b) THEN Value(IntValue(FloorDiv(a.i, b.i)))
    ELSE Unsupported("//", a, b)

\* a % b, b not the int 0.  A str on the left is a format: the texts of the
\* model hold no conversion specifier, so a list argument leaves it as it
\* is and any other argument is left unconverted.
py_mod(a, b) ==
    IF IsInt(a) /\ IsInt(b) THEN Value(IntValue(PyMod(a.i, b.i)))
    ELSE IF IsStr(a)
    THEN (IF IsList(b) THEN Value(a)
          ELSE Raise("TypeError",
                     "not all arguments converted during string formatting"))
    ELSE Unsupported("%", a, b)

\* -a
py_neg(a) ==
    IF IsInt(a) THEN Value(IntValue(0 - a.i))
    ELSE Raise("TypeError", "bad operand type for unary -: '" \o type_name(a) \o "'")

RECURSIVE TextLess(_, _)
\* a < b for two str: the order of the first differing code points.
TextLess(a, b) ==
    IF Len(b) = 0 THEN FALSE
    ELSE IF Len(a) = 0 THEN TRUE
    ELSE IF CharAt(a, 1) # CharAt(b, 1) THEN Ord(CharAt(a, 1)) < Ord(CharAt(b, 1))
    ELSE TextLess(Tail(a), Tail(b))

RECURSIVE ListLess(_, _)
\* a < b for two lists of int
ListLess(a, b) ==
    IF Len(b) = 0 THEN FALSE
    ELSE IF Len(a) = 0 THEN TRUE
    ELSE IF a[1] # b[1] THEN a[1] < b[1]
    ELSE ListLess(Tail(a), Tail(b))

\* a < b where both are int, both str or both list
Less(a, b) ==
    IF IsInt(a) THEN a.i < b.i
    ELSE IF IsStr(a) THEN TextLess(a.s, b.s)
    ELSE ListLess(a.l, b.l)

\* a op b for op one of <, >, <=, >=: 1 or 0
py_compare(op, a, b) ==
    IF \/ IsInt(a) /\ IsInt(b)
       \/ IsStr(a) /\ IsStr(b)
       \/ IsList(a) /\ IsList(b)
    THEN Value(IntValue(
            IF CASE op = "<" -> Less(a, b)
                 [] op = ">" -> Less(b, a)
                 [] op = "<=" -> ~Less(b, a)
                 [] op = ">=" -> ~Less(a, b)
            THEN 1 ELSE 0))
    ELSE Raise("TypeError", "'" \o op \o "' not supported between instances of '"
                            \o type_name(a) \o "' and '" \o type_name(b) \o "'")

\* The CodeGenerator: memory, output, pc (0-based) and labels.
CodeGenerator(memory, output, pc, labels) ==
    [memory |-> memory, output |-> output, pc |-> pc, labels |-> labels]

\* What execute_instruction leaves: the CodeGenerator after it, or the
\* exception it raised (the CodeGenerator as it was).
Executed(g) == [ok |-> TRUE, cg |-> g, error |-> Exception(None, "")]
Failed(g, e) == [ok |-> FALSE, cg |-> g, error |-> e]

\* A get_value that looks a name up before it tries the literals, and has
\* no value for a name the store does not hold.
get_value_store_first(memory, identifier) ==
    IF identifier = None THEN NoneValue
    ELSE IF identifier \in DOMAIN memory THEN memory[identifier]
    ELSE IF PyInt(identifier).ok THEN IntValue(PyInt(identifier).value)
    ELSE IF StartsWith(identifier, "\"") /\ EndsWith(identifier, "\"")
    THEN StrValue(Slice(identifier, 2, Len(identifier) - 1))
    ELSE NoneValue

\* CodeGenerator.get_value
get_value(memory, identifier) ==
    IF identifier = None THEN NoneValue
    ELSE IF PyInt(identifier).ok THEN IntValue(PyInt(identifier).value)
    ELSE IF StartsWith(identifier, "\"") /\ EndsWith(identifier, "\"")
    THEN StrValue(Slice(identifier, 2, Len(identifier) - 1))
    ELSE IF identifier \in DOMAIN memory THEN memory[identifier]
    ELSE StrValue(identifier)

RECURSIVE fibonacci_loop(_, _)
\* The for loop of compute_fibonacci: fib extended to n elements.
fibonacci_loop(fib, n) ==
    IF Len(fib) >= n THEN fib
    ELSE fibonacci_loop(Append(fib, fib[Len(fib)] + fib[Len(fib) - 1]), n)

\* A Fibonacci list that starts 1, 1.
compute_fibonacci_from_one(n) ==
    IF n <= 0 THEN <<>>
    ELSE IF n = 1 THEN <<1>>
    ELSE fibonacci_loop(<<1, 1>>, n)

\* CodeGenerator.compute_fibonacci
compute_fibonacci(n) ==
    IF n <= 0 THEN <<>>
    ELSE IF n = 1 THEN <<0>>
    ELSE IF n = 2 THEN <<0, 1>>
    ELSE fibonacci_loop(<<0, 1>>, n)

RECURSIVE factorial_loop(_, _, _)
\* The for loop of compute_factorial: result times i * (i + 1) * ... * n.
factorial_loop(res, i, n) ==
    IF i > n THEN res ELSE factorial_loop(res * i, i + 1, n)

\* A factorial that is 1 for a negative argument.
compute_factorial_one_below_zero(n) ==
    IF n <= 1 THEN 1 ELSE factorial_loop(1, 2, n)

\* CodeGenerator.compute_factorial
compute_factorial(n) ==
    IF n < 0 THEN 0
    ELSE IF n = 0 \/ n = 1 THEN 1
    ELSE factorial_loop(1, 2, n)

\* The default of the parameter count of compute_sequence.
SequenceCount == 10

\* CodeGenerator.compute_sequence
compute_sequence(start, step, count) ==
    [k \in 1..count |-> start + (k - 1) * step]

\* A store that also appends the stored value to the output log.
store_and_log(g, instr, computed) ==
    IF computed.ok
    THEN Executed([g EXCEPT !.memory = Put(g.memory, instr.result, computed.value),
                            !.output = Append(g.output, PyStr(computed.value))])
    ELSE Failed(g, computed.error)

\* memory[instr.result] = the value of a computation, or its exception.
store(g, instr, computed) ==
    IF computed.ok
    THEN Executed([g EXCEPT !.memory = Put(g.memory, instr.result, computed.value)])
    ELSE Failed(g, computed.error)

\* A jump after which the label instruction itself is executed next.
jump_before_label(g, name) ==
    IF name \in DOMAIN g.labels
    THEN Executed([g EXCEPT !.pc = g.labels[name] - 1])
    ELSE Failed(g, Exception("RuntimeError", "Label '" \o name \o "' not found"))

\* The jump of goto and if_false to the label `name`.
jump(g, name) ==
    IF name \in DOMAIN g.labels
    THEN Executed([g EXCEPT !.pc = g.labels[name]])
    ELSE Failed(g, Exception("RuntimeError", "Label '" \o name \o "' not found"))

\* The pattern branches of execute_instruction: `needed` arguments are
\* read, each as int(get_value(args[k].strip())).
execute_pattern(g, instr, needed) ==
    IF instr.arg1 = None
    THEN Failed(g, Exception("AttributeError",
                             "'NoneType' object has no attribute 'split'"))
    ELSE
    Bind(Split(instr.arg1, ","), LAMBDA args :
    IF Len(args) < needed
    THEN Failed(g, Exception("RuntimeError",
                    instr.op \o " requires " \o IntToText(needed) \o " argument"
                    \o (IF needed > 1 THEN "s" ELSE "")))
    ELSE
    Bind(int(get_value(g.memory, Strip(args[1]))), LAMBDA first :
    IF ~first.ok THEN Failed(g, first.error)
    ELSE IF instr.op = "fibonacci"
    THEN store(g, instr, Value(ListValue(compute_fibonacci(first.value.i))))
    ELSE IF instr.op = "factorial"
    THEN store(g, instr, Value(IntValue(compute_factorial(first.value.i))))
    ELSE
    Bind(int(get_value(g.memory, Strip(args[2]))), LAMBDA second :
    IF ~second.ok THEN Failed(g, second.error)
    ELSE store(g, instr,
               Value(ListValue(compute_sequence(first.value.i, second.value.i,
                                                SequenceCount)))))))

\* CodeGenerator.execute_instruction
execute_instruction(g, instr) ==
    Bind(get_value(g.memory, instr.arg1), LAMBDA arg1 :
    Bind(get_value(g.memory, instr.arg2), LAMBDA arg2 :
        CASE instr.op = "=" -> store(g, instr, Value(arg1))
          [] instr.op = "add" -> store(g, instr, py_add(arg1, arg2))
          [] instr.op = "sub" -> store(g, instr, py_sub(arg1, arg2))
          [] instr.op = "mul" -> store(g, instr, py_mul(arg1, arg2))
          [] instr.op = "div" ->
                IF arg2 = IntValue(0)
                THEN Failed(g, Exception("RuntimeError", "Division by zero"))
                ELSE store(g, instr, py_floordiv(arg1, arg2))
          [] instr.op = "mod" ->
                IF arg2 = IntValue(0)
                THEN Failed(g, Exception("RuntimeError", "Modulo by zero"))
                ELSE store(g, instr, py_mod(arg1, arg2))
          [] instr.op = "neg" -> store(g, instr, py_neg(arg1))
          [] instr.op = "eq" ->
                store(g, instr, Value(IntValue(IF arg1 = arg2 THEN 1 ELSE 0)))
          [] instr.op = "ne" ->
                store(g, instr, Value(IntValue(IF arg1 # arg2 THEN 1 ELSE 0)))
          [] instr.op = "lt" -> store(g, instr, py_compare("<", arg1, arg2))
          [] instr.op = "gt" -> store(g, instr, py_compare(">", arg1, arg2))
          [] instr.op = "le" -> store(g, instr, py_compare("<=", arg1, arg2))
          [] instr.op = "ge" -> store(g, instr, py_compare(">=", arg1, arg2))
          [] instr.op = "print" ->
                Executed([g EXCEPT !.output = Append(g.output, PyStr(arg1))])
          [] instr.op = "label" -> Executed(g)
          [] instr.op = "goto" -> jump(g, instr.arg1)
          [] instr.op = "if_false" ->
                IF arg1 = IntValue(0) THEN jump(g, instr.arg2) ELSE Executed(g)
          [] instr.op = "fibonacci" -> execute_pattern(g, instr, 1)
          [] instr.op = "factorial" -> execute_pattern(g, instr, 1)
          [] instr.op = "sequence" -> execute_pattern(g, instr, 2)
          [] OTHER -> Executed(g)))

\* The first pass of CodeGenerator.generate: each label name mapped to the
\* 0-based index of the last label instruction that carries it.
label_map(instructions) ==
    LET at(name) == {k \in 1..Len(instructions) :
                        /\ instructions[k].op = "label"
                        /\ instructions[k].arg1 = name}
    IN  [name \in {instructions[k].arg1 :
                      k \in {j \in 1..Len(instructions) : instructions[j].op = "label"}}
            |-> (CHOOSE k \in at(name) : \A j \in at(name) : j <= k) - 1]

\* CodeGenerator.__init__
NewCodeGenerator == CodeGenerator(EmptyDict, <<>>, 0, EmptyDict)

\* A reset that leaves the store of the instance as the last run left it.
reset_keeping_memory(g, instructions) ==
    [g EXCEPT !.output = <<>>, !.pc = 0, !.labels = label_map(instructions)]

\* CodeGenerator.generate up to its while loop, on the instance g: the
\* state is reset and the label map built.
reset(g, instructions) ==
    [g EXCEPT !.memory = EmptyDict, !.output = <<>>, !.pc = 0,
              !.labels = label_map(instructions)]

\* One iteration of the while loop of CodeGenerator.generate.
generate_step(instructions, g) ==
    Bind(execute_instruction(g, instructions[g.pc + 1]), LAMBDA done :
    IF done.ok THEN Executed([done.cg EXCEPT !.pc = done.cg.pc + 1]) ELSE done)

\* A run of CodeGenerator.generate under way: the CodeGenerator, whether
\* the run has ended, and the exception that ended it (kind None: none).
Run(g, halted, err) == [cg |-> g, halted |-> halted, error |-> err]

\* The while loop of CodeGenerator.generate: its exit test and one iteration.
run_step(instructions, run) ==
    IF run.halted THEN run
    ELSE IF run.cg.pc >= Len(instructions)
    THEN Run(run.cg, TRUE, Exception(None, ""))
    ELSE Bind(generate_step(instructions, run.cg), LAMBDA done :
         IF done.ok THEN Run(done.cg, FALSE, Exception(None, ""))
         ELSE Run(run.cg, TRUE, done.error))

RECURSIVE run_loop(_, _, _)
\* Up to n turns of the while loop of CodeGenerator.generate, by halves.
run_loop(instructions, n, run) ==
    IF run.halted \/ n = 0 THEN run
    ELSE IF n = 1 THEN run_step(instructions, run)
    ELSE Bind(run_loop(instructions, n \div 2, run), LAMBDA half :
         IF half.halted THEN half
         ELSE run_loop(instructions, n - (n \div 2), half))

\* g.generate(instructions) for the instance g, cut off after `fuel` turns
\* of its loop: halted tells whether it returned (error.kind None) or raised.
generate_on(g, instructions, fuel) ==
    run_loop(instructions, fuel,
             Run(reset(g, instructions), FALSE, Exception(None, "")))

\* CodeGenerator().generate(instructions), cut off after `fuel` turns.
cg_generate(instructions, fuel) ==
    generate_on(NewCodeGenerator, instructions, fuel)

(***************************************************************************)
(* Compiler.compile as a state machine                                     *)
(***************************************************************************)

\* Bounds: statements of a generated source, instructions one run may
\* execute, and turns of the parse loop that consume no token.
MaxStmts == 2
MaxSteps == 30
MaxIdle == 2

\* The programs the specification names, and programs of the kinds it
\* describes.
Examples == {
    "var t0 = 7; var y = 1 + 2; print t0;",
    "var x = 5; print x-1;",
    "var y = (2)-3;",
    "print 1-2;",
    "sequence(s, \"1,2\"); print s;",
    "var x = 1; if (x) { print x; } else { }",
    "var x = 0; if (x) { print 1; } else { print 2; }",
    "var x = 7; print x; print x / 0;",
    "var x = 7; print x; print x % 0;",
    "var i = 0; while (i < 3) { print i; i = i + 1; }",
    "var x = 2 + 3; print x;",
    "var x = 10; var y = 0; print x / y;",
    "var x = 1; if (0) { x = 2; } print x + 0;",
    "var x = 1; factorial(x, 3); print x + 1;",
    "var x = 1; fibonacci(x, 3); var y = x + 1; print y;",
    "var x = 1; if (x == 1) { x = 2; } else { x = 3; } print x;",
    "var n = 7 / -2; var t = -7 % 2; print n * 10 + t;" }

\* The statements generated sources are made of.
Statements == <<
    "var x = 1;",
    "var x = \"a\";",
    "x = 2;",
    "print x;",
    "print y;",
    "print x + 1;",
    "print \"a\" + 1;",
    "var b = x == x;",
    "var t0 = 7 % 2;",
    "var y = x / 0;",
    "if (0) { x = 2; }",
    "if (x == 1) { var x = 3; } else { print -x; }",
    "while (x < 3) { x = x + 1; }",
    "for (i = 0; i < 2; i = i + 1) { print i; }",
    "fibonacci(x, 3);",
    "sequence(t0, 1);",
    "}",
    "var y = 2 @ 3;" >>

RECURSIVE Programs(_)
\* The texts of n statements, separated by one space.
Programs(n) ==
    IF n = 0 THEN {""}
    ELSE {(IF p = "" THEN "" ELSE p \o " ") \o Statements[k] :
              p \in Programs(n - 1), k \in 1..Len(Statements)}

\* The arguments the intrinsic programs are run with: -3 .. MaxArg for
\* MaxArg = 6.
MaxArg == 6
PatternArgs == (0 - MaxArg \div 2)..MaxArg

\* `fibonacci(f, n); print f;` and `factorial(f, n); print f;`
FibonacciExample(n) == "fibonacci(f, " \o IntToText(n) \o "); print f;"
FactorialExample(n) == "factorial(f, " \o IntToText(n) \o "); print f;"

Sources ==
    Examples \cup UNION {Programs(n) : n \in 0..MaxStmts}
             \cup {FibonacciExample(n) : n \in PatternArgs}
             \cup {FactorialExample(n) : n \in PatternArgs}

\* What Compiler.compile has returned, if it has: (success, output).
NotReturned == [returned |-> FALSE, success |-> FALSE, output |-> <<>>]
Returned(success, output) ==
    [returned |-> TRUE, success |-> success, output |-> output]

\* Except clauses that return the lines printed so far before the message.
Caught_keeping_log(e) ==
    [returned |-> TRUE, success |-> FALSE,
     output |-> cg.output \o <<"Error: " \o e.msg>>]

\* The except clauses of Compiler.compile.
Caught(e) ==
    IF e.kind = "SyntaxError" THEN Returned(FALSE, <<"Syntax Error: " \o e.msg>>)
    ELSE Returned(FALSE, <<"Error: " \o e.msg>>)

Stages == {"lex", "parse", "analyze", "generate", "fold", "dce", "load", "run"}

Init ==
    /\ source \in Sources
    /\ stage = "lex"
    /\ tokens = <<>>
    /\ pos = 0
    /\ statements = <<>>
    /\ idle = 0
    /\ ast = None
    /\ symbols = EmptyDict
    /\ tac = <<>>
    /\ folded = <<>>
    /\ constants = EmptyDict
    /\ used_vars = {}
    /\ optimized = <<>>
    /\ cg = NewCodeGenerator
    /\ steps = 0
    /\ result = NotReturned

\* Phase 1: Lexer(source).tokenize()
Tokenize ==
    /\ stage = "lex" /\ ~result.returned
    /\ Bind(tokenize(source), LAMBDA lexed :
       IF lexed.ok
       THEN /\ tokens' = lexed.tokens
            /\ stage' = "parse"
            /\ UNCHANGED result
       ELSE /\ result' = Caught(lexed.error)
            /\ UNCHANGED <<tokens, stage>>)
    /\ UNCHANGED <<source, pos, statements, idle, ast, symbols, tac, folded,
                   constants, used_vars, optimized, cg, steps>>

\* Phase 2, one turn of the while loop of Parser.parse: a statement is
\* parsed and appended unless parse_statement returned None.
ParseStatement ==
    /\ stage = "parse" /\ ~result.returned
    /\ current_token(tokens, pos).type # "EOF"
    /\ idle < MaxIdle
    /\ Bind(parse_statement(tokens, pos), LAMBDA stmt :
       IF stmt.ok
       THEN /\ pos' = stmt.pos
            /\ statements' = IF stmt.none THEN statements
                             ELSE Append(statements, stmt.node)
            /\ idle' = IF stmt.pos = pos THEN idle + 1 ELSE idle
            /\ UNCHANGED result
       ELSE /\ result' = Caught(stmt.error)
            /\ UNCHANGED <<pos, statements, idle>>)
    /\ UNCHANGED <<source, stage, tokens, ast, symbols, tac, folded, constants,
                   used_vars, optimized, cg, steps>>

\* Phase 2, the exit of the loop of Parser.parse: return Program(statements)
ParseReturn ==
    /\ stage = "parse" /\ ~result.returned
    /\ current_token(tokens, pos).type = "EOF"
    /\ ast' = Program(statements)
    /\ stage' = "analyze"
    /\ UNCHANGED <<source, tokens, pos, statements, idle, symbols, tac, folded,
                   constants, used_vars, optimized, cg, steps, result>>

\* An analysis whose error does not stop the pipeline.
Analyze_ignoring_errors ==
    /\ stage = "analyze" /\ ~result.returned
    /\ symbols' = analyze(ast).symbols
    /\ stage' = "generate"
    /\ UNCHANGED <<source, tokens, pos, statements, idle, ast, tac, folded,
                   constants, used_vars, optimized, cg, steps, result>>

\* Phase 3: SemanticAnalyzer().analyze(ast)
Analyze ==
    /\ stage = "analyze" /\ ~result.returned
    /\ Bind(analyze(ast), LAMBDA analyzed :
       /\ symbols' = analyzed.symbols
       /\ IF analyzed.ok
          THEN stage' = "generate" /\ UNCHANGED result
          ELSE result' = Caught(analyzed.error) /\ UNCHANGED stage)
    /\ UNCHANGED <<source, tokens, pos, statements, idle, ast, tac, folded,
                   constants, used_vars, optimized, cg, steps>>

\* Phase 4: IntermediateCodeGenerator().generate(ast)
GenerateTAC ==
    /\ stage = "generate" /\ ~result.returned
    /\ tac' = generate(ast)
    /\ stage' = "fold"
    /\ UNCHANGED <<source, tokens, pos, statements, idle, ast, symbols, folded,
                   constants, used_vars, optimized, cg, steps, result>>

\* Phase 5, first pass of Optimizer.optimize
ConstantFolding ==
    /\ stage = "fold" /\ ~result.returned
    /\ Bind(constant_folding(tac), LAMBDA pass :
       /\ folded' = pass.optimized
       /\ constants' = pass.constants)
    /\ stage' = "dce"
    /\ UNCHANGED <<source, tokens, pos, statements, idle, ast, symbols, tac,
                   used_vars, optimized, cg, steps, result>>

\* Phase 5, second pass of Optimizer.optimize
DeadCodeElimination ==
    /\ stage = "dce" /\ ~result.returned
    /\ Bind(dead_code_elimination(folded), LAMBDA pass :
       /\ used_vars' = pass.used_vars
       /\ IF pass.ok
          THEN optimized' = pass.optimized /\ stage' = "load" /\ UNCHANGED result
          ELSE result' = Caught(pass.error) /\ UNCHANGED <<optimized, stage>>)
    /\ UNCHANGED <<source, tokens, pos, statements, idle, ast, symbols, tac,
                   folded, constants, cg, steps>>

\* Phase 6, CodeGenerator.generate up to its loop
Load ==
    /\ stage = "load" /\ ~result.returned
    /\ cg' = reset(cg, optimized)
    /\ stage' = "run"
    /\ UNCHANGED <<source, tokens, pos, statements, idle, ast, symbols, tac,
                   folded, constants, used_vars, optimized, steps, result>>

\* A turn of the loop whose exception takes the output log with it.
Execute_losing_log ==
    /\ stage = "run" /\ ~result.returned
    /\ cg.pc < Len(optimized)
    /\ steps < MaxSteps
    /\ Bind(generate_step(optimized, cg), LAMBDA done :
       IF done.ok
       THEN cg' = done.cg /\ steps' = steps + 1 /\ UNCHANGED result
       ELSE /\ result' = Caught(done.error)
            /\ cg' = [cg EXCEPT !.output = <<>>]
            /\ UNCHANGED steps)
    /\ UNCHANGED <<source, stage, tokens, pos, statements, idle, ast, symbols,
                   tac, folded, constants, used_vars, optimized>>

\* Phase 6, one turn of the loop of CodeGenerator.generate
Execute ==
    /\ stage = "run" /\ ~result.returned
    /\ cg.pc < Len(optimized)
    /\ steps < MaxSteps
    /\ Bind(generate_step(optimized, cg), LAMBDA done :
       IF done.ok
       THEN cg' = done.cg /\ steps' = steps + 1 /\ UNCHANGED result
       ELSE result' = Caught(done.error) /\ UNCHANGED <<cg, steps>>)
    /\ UNCHANGED <<source, stage, tokens, pos, statements, idle, ast, symbols,
                   tac, folded, constants, used_vars, optimized>>

\* Phase 6, the exit of the loop, and `return True, self.output`
Return ==
    /\ stage = "run" /\ ~result.returned
    /\ cg.pc >= Len(optimized)
    /\ result' = Returned(TRUE, cg.output)
    /\ UNCHANGED <<source, stage, tokens, pos, statements, idle, ast, symbols,
                   tac, folded, constants, used_vars, optimized, cg, steps>>

Next ==
    \/ Tokenize
    \/ ParseStatement
    \/ ParseReturn
    \/ Analyze
    \/ GenerateTAC
    \/ ConstantFolding
    \/ DeadCodeElimination
    \/ Load
    \/ Execute
    \/ Return

Spec == Init /\ [][Next]_vars

(***************************************************************************)
(* Properties                                                              *)
(***************************************************************************)

\* The stages compile is in once analysis, folding, optimization is over.
AfterAnalysis == {"generate", "fold", "dce", "load", "run"}
AfterFolding == {"dce", "load", "run"}
AfterOptimization == {"load", "run"}

IsPrefix(a, b) == Len(a) <= Len(b) /\ SubSeq(b, 1, Len(a)) = a

RECURSIVE MatchFrom(_, _, _, _)
\* a[i..] can be had from b[j..] by leaving elements out.
MatchFrom(a, i, b, j) ==
    IF i > Len(a) THEN TRUE
    ELSE IF j > Len(b) THEN FALSE
    ELSE IF a[i] = b[j] THEN MatchFrom(a, i + 1, b, j + 1)
    ELSE MatchFrom(a, i, b, j + 1)

IsSubsequence(a, b) == MatchFrom(a, 1, b, 1)

Contains(instructions, instr) ==
    \E k \in 1..Len(instructions) : instructions[k] = instr

LoopExample == "var i = 0; while (i < 3) { print i; i = i + 1; }"
SumExample == "var x = 2 + 3; print x;"
DivExample == "var x = 10; var y = 0; print x / y;"

\* C1: compiling the loop example terminates and returns exactly the log
\* ["0","1","2"]: the log the interpreter builds is at every moment a prefix
\* of it, and what compile returns is (True, ["0","1","2"]).
C1_LoopExampleOutput ==
    source = LoopExample =>
        /\ IsPrefix(cg.output, <<"0", "1", "2">>)
        /\ result.returned => result = Returned(TRUE, <<"0", "1", "2">>)

RECURSIVE Assigns(_)
\* Some statement of stmts, at any depth, writes a variable.
Assigns(stmts) ==
    \E k \in 1..Len(stmts) :
        LET s == stmts[k] IN
        \/ s.node \in {"Declaration", "Assignment", "PatternStmt", "ForStmt"}
        \/ s.node = "IfStmt" /\ (Assigns(s.then_block) \/ Assigns(s.else_block))
        \/ s.node = "WhileStmt" /\ Assigns(s.block)

RECURSIVE AssignsInLoop(_)
\* Some variable is written inside a loop of stmts: in the body of a while,
\* or by a for (whose update is an assignment made on every turn).
AssignsInLoop(stmts) ==
    \E k \in 1..Len(stmts) :
        LET s == stmts[k] IN
        \/ s.node = "ForStmt"
        \/ s.node = "WhileStmt" /\ Assigns(s.block)
        \/ s.node = "IfStmt" /\ (AssignsInLoop(s.then_block)
                                 \/ AssignsInLoop(s.else_block))

\* C2: for a program that assigns no variable inside a loop, the folded
\* list prints what the unfolded list prints: whenever both runs return,
\* their output logs are equal.
C2_FoldingPreservesOutput ==
    (stage = "dce" /\ ~AssignsInLoop(ast.statements)) =>
        Bind(cg_generate(tac, MaxSteps), LAMBDA unfolded :
        Bind(cg_generate(folded, MaxSteps), LAMBDA after :
            (/\ unfolded.halted /\ unfolded.error.kind = None
             /\ after.halted /\ after.error.kind = None)
            => after.cg.output = unfolded.cg.output))

\* C3 as stated: for `var x = 2 + 3; print x;` the folded list contains the
\* instruction `x = 5`, and compile returns (True, ["5"]).
C3_FoldedAssignsFiveToX ==
    source = SumExample =>
        /\ stage \in AfterFolding =>
                Contains(folded, TACInstruction("=", "5", None, "x"))
        /\ result.returned => result = Returned(TRUE, <<"5">>)

\* C3: for `var x = 2 + 3; print x;` the folded list is `t0 = 5`, `x = t0`,
\* `print x` (the sum is folded into the temporary, from which x is
\* assigned), the optimized list is the same, and compile returns
\* (True, ["5"]).
C3_FoldedSum ==
    source = SumExample =>
        /\ stage \in AfterFolding =>
                folded = << TACInstruction("=", "5", None, "t0"),
                            TACInstruction("=", "t0", None, "x"),
                            TACInstruction("print", "x", None, None) >>
        /\ stage \in AfterOptimization => optimized = folded
        /\ result.returned => result = Returned(TRUE, <<"5">>)

C3_Witness ==
    /\ source = SumExample
    /\ stage = "run"
    /\ result.returned /\ result.success

\* C4: for `var x = 10; var y = 0; print x / y;` every stage up to and
\* including optimization succeeds, the div instruction is in the folded
\* and in the optimized list, and compile returns from the execution with
\* the failure "Error: Division by zero", nothing printed.
C4_DivisionByZero ==
    source = DivExample =>
        /\ stage \in AfterFolding =>
                Contains(folded, TACInstruction("div", "x", "y", "t0"))
        /\ stage \in AfterOptimization =>
                Contains(optimized, TACInstruction("div", "x", "y", "t0"))
        /\ result.returned =>
                /\ stage = "run"
                /\ result = Returned(FALSE, <<"Error: Division by zero">>)
                /\ cg.output = <<>>

C4_Witness ==
    /\ source = DivExample
    /\ stage = "run"
    /\ result.returned /\ ~result.success

\* The instructions dead code elimination is to keep whatever is used.
MustKeep(instr) ==
    \/ instr.op \in {"print", "label", "goto", "if_false",
                     "fibonacci", "factorial", "sequence"}
    \/ instr.op = "=" /\ instr.result # None /\ StartsWith(instr.result, TempPrefix)

\* C5: dead_code_elimination keeps every print, label, goto, if_false,
\* fibonacci, factorial and sequence instruction and every `=` whose result
\* begins with the temporary prefix, and what it keeps is in the order of
\* its input: the list it returns is a subsequence of its input that holds
\* all these instructions.
C5_DceRetention ==
    stage \in AfterOptimization =>
        /\ IsSubsequence(optimized, folded)
        /\ SelectSeq(optimized, MustKeep) = SelectSeq(folded, MustKeep)

\* An instruction was dropped, and an assignment to a temporary nothing
\* uses was kept.
C5_Witness ==
    /\ stage \in AfterOptimization
    /\ Len(optimized) < Len(folded)
    /\ \E k \in 1..Len(folded) :
            /\ folded[k].op = "="
            /\ StartsWith(folded[k].result, TempPrefix)
            /\ folded[k].result \notin used_vars
            /\ Contains(optimized, folded[k])

HasTemporaryResult(instr) ==
    instr.result # None /\ StartsWith(instr.result, TempPrefix)

\* C6: dead code elimination keeps every instruction whose result is a
\* temporary, unfolded arithmetic, comparison and unary instructions
\* included, read or not: these instructions of its input are all in its
\* output.
C6_TemporariesKept ==
    stage \in AfterOptimization =>
        SelectSeq(optimized, HasTemporaryResult)
            = SelectSeq(folded, HasTemporaryResult)

RECURSIVE DeclaredNames(_)
\* The names the `var` declarations of stmts declare, at any depth, in
\* program order.
DeclaredNames(stmts) ==
    IF Len(stmts) = 0 THEN <<>>
    ELSE LET s == Head(stmts) IN
         (CASE s.node = "Declaration" -> <<s.identifier>>
            [] s.node = "IfStmt" ->
                    DeclaredNames(s.then_block) \o DeclaredNames(s.else_block)
            [] s.node \in {"WhileStmt", "ForStmt"} -> DeclaredNames(s.block)
            [] OTHER -> <<>>)
         \o DeclaredNames(Tail(stmts))

\* Some name is declared twice.
Redeclares(stmts) ==
    LET names == DeclaredNames(stmts) IN
    \E j, k \in 1..Len(names) : j < k /\ names[j] = names[k]

\* C7: a program with a second `var` declaration of a declared name fails
\* semantic analysis, wherever the second declaration is: no such program
\* gets past the analysis.
C7_RedeclarationRejected ==
    stage \in AfterAnalysis => ~Redeclares(ast.statements)

RECURSIVE NamesRead(_)
\* The identifiers an expression reads.
NamesRead(e) ==
    CASE e.node = "Identifier" -> {e.name}
      [] e.node = "BinaryOp" -> NamesRead(e.left) \cup NamesRead(e.right)
      [] e.node = "UnaryOp" -> NamesRead(e.operand)
      [] OTHER -> {}

\* What a walk over statements in program order has found: whether a name
\* was read that nothing before the read had written, and the names written.
Walked(early, written) == [early |-> early, written |-> written]

RECURSIVE EarlyReads(_, _)
\* The walk over stmts, `written` holding the names that a declaration, an
\* assignment or a pattern statement before them has written.
EarlyReads(stmts, written) ==
    IF Len(stmts) = 0 THEN Walked(FALSE, written)
    ELSE LET s == Head(stmts)
             unknown(e) == ~(NamesRead(e) \subseteq written)
             first ==
                CASE s.node \in {"Declaration", "Assignment"} ->
                        Walked(unknown(s.expression), written \cup {s.identifier})
                  [] s.node = "PrintStmt" -> Walked(unknown(s.expression), written)
                  [] s.node = "PatternStmt" ->
                        Walked(\E k \in 1..Len(s.args) : unknown(s.args[k]),
                               written \cup {s.identifier})
                  [] s.node = "IfStmt" ->
                        Bind(EarlyReads(s.then_block, written), LAMBDA then :
                        Bind(EarlyReads(s.else_block, then.written), LAMBDA else :
                            Walked(unknown(s.condition) \/ then.early \/ else.early,
                                   else.written)))
                  [] s.node = "WhileStmt" ->
                        Bind(EarlyReads(s.block, written), LAMBDA block :
                            Walked(unknown(s.condition) \/ block.early, block.written))
                  [] s.node = "ForStmt" ->
                        Bind(EarlyReads(<<s.init>>, written), LAMBDA init :
                        Bind(EarlyReads(s.block, init.written), LAMBDA block :
                        Bind(EarlyReads(<<s.update>>, block.written), LAMBDA update :
                            Walked(\/ init.early
                                   \/ ~(NamesRead(s.condition) \subseteq init.written)
                                   \/ block.early \/ update.early,
                                   update.written))))
                  [] OTHER -> Walked(FALSE, written)
             rest == EarlyReads(Tail(stmts), first.written)
         IN  Walked(first.early \/ rest.early, rest.written)

\* C8: a program that reads an identifier before any declaration of it fails
\* semantic analysis, in whatever position the read is (a right-hand side,
\* a print expression, a condition, a pattern argument): no program that
\* reads a name nothing has written before gets past the analysis.
C8_EarlyReadRejected ==
    stage \in AfterAnalysis => ~EarlyReads(ast.statements, {}).early

\* C9: parse terminates and raises SyntaxError at a token that cannot begin
\* a statement, a `}` at top level too, rather than skipping it or looping
\* on it: no turn of the loop of parse returns with the parser where it was.
C9_TopLevelBraceRejected ==
    stage = "parse" => idle = 0

\* The messages of the failures C10 allows an execution.
AllowedFailure(line) ==
    \/ line \in {"Error: Division by zero", "Error: Modulo by zero"}
    \/ StartsWith(line, "Error: Label '") /\ EndsWith(line, "' not found")
    \/ line \in {"Error: fibonacci requires 1 argument",
                 "Error: factorial requires 1 argument",
                 "Error: sequence requires 2 arguments"}

\* C10: the execution of a program that passed semantic analysis fails only
\* by a division by zero, a modulo by zero, an unknown label or an intrinsic
\* with too few arguments.
C10_OnlyRuntimeErrors ==
    (stage = "run" /\ result.returned /\ ~result.success) =>
        AllowedFailure(result.output[1])

\* C11: compile returns either (True, the whole log of a run that came to
\* its end) or (False, one message): after a failure the returned list is a
\* single line that begins "Syntax Error: " or "Error: ", and no line the
\* run printed before the fault is in it.
C11_LogOrSingleError ==
    result.returned =>
        IF result.success
        THEN /\ stage = "run"
             /\ cg.pc >= Len(optimized)
             /\ result.output = cg.output
        ELSE /\ Len(result.output) = 1
             /\ \/ StartsWith(result.output[1], "Syntax Error: ")
                \/ StartsWith(result.output[1], "Error: ")
             /\ \A k \in 1..Len(cg.output) : cg.output[k] # result.output[1]

\* The execution failed after it had printed a line.
C11_Witness ==
    /\ stage = "run"
    /\ result.returned /\ ~result.success
    /\ cg.output # <<>>

\* The order of the phases of compile.
StageOrder == { <<"lex", "parse">>, <<"parse", "analyze">>,
                <<"analyze", "generate">>, <<"generate", "fold">>,
                <<"fold", "dce">>, <<"dce", "load">>, <<"load", "run">> }

\* What the phases after `stage` have to leave untouched while compile is
\* at `stage`.
LaterStagesNotRun ==
    /\ stage \in {"lex", "parse"} => symbols = EmptyDict
    /\ stage \in {"lex", "parse", "analyze"} => tac = <<>>
    /\ stage \in {"lex", "parse", "analyze", "generate"} =>
            folded = <<>> /\ constants = EmptyDict
    /\ stage \in {"lex", "parse", "analyze", "generate", "fold"} =>
            used_vars = {}
    /\ stage \in {"lex", "parse", "analyze", "generate", "fold", "dce"} =>
            /\ optimized = <<>>
            /\ cg = CodeGenerator(EmptyDict, <<>>, 0, EmptyDict)
    /\ stage # "run" => steps = 0

\* One step of compile keeps the order of the phases: it is taken before
\* compile has returned, it moves to the next phase only, and only when the
\* phase it leaves raised nothing, and a failure leaves compile at the phase
\* that raised.
StageStep ==
    /\ ~result.returned
    /\ stage' # stage => <<stage, stage'>> \in StageOrder /\ ~result'.returned
    /\ (stage = "lex" /\ stage' = "parse") => tokenize(source).ok
    /\ (stage = "analyze" /\ stage' = "generate") => analyze(ast).ok
    /\ (result'.returned /\ ~result'.success) => stage' = stage

\* C12: the phases run in the order lex, parse, analyze, generate, optimize
\* (fold, dce), execute (load, run), and a failure stops the pipeline: after
\* a failure of tokenize or parse no later phase has run, and after a failure
\* of the analysis neither IR generation, optimization nor execution has.
C12_StagesInOrder == [](LaterStagesNotRun) /\ [][StageStep]_vars

\* The analysis failed, and compile returned the failure from there.
C12_Witness ==
    /\ stage = "analyze"
    /\ result.returned /\ ~result.success
    /\ symbols # EmptyDict

DivAfterPrint == "var x = 7; print x; print x / 0;"
ModAfterPrint == "var x = 7; print x; print x % 0;"

\* The interpreter is about to execute an instruction `op` whose second
\* operand resolves to 0.
AtZeroDivisor(op) ==
    /\ stage = "run" /\ ~result.returned
    /\ cg.pc < Len(optimized)
    /\ optimized[cg.pc + 1].op = op
    /\ get_value(cg.memory, optimized[cg.pc + 1].arg2) = IntValue(0)

\* The step from a div (mod) whose divisor is 0: the failure is returned,
\* and the store, the log and the program counter are as they were.
ZeroDivisorStep ==
    /\ AtZeroDivisor("div") =>
            /\ result' = Returned(FALSE, <<"Error: Division by zero">>)
            /\ cg' = cg
    /\ AtZeroDivisor("mod") =>
            /\ result' = Returned(FALSE, <<"Error: Modulo by zero">>)
            /\ cg' = cg

\* C13: executing a div (a mod) whose second operand resolves to 0 raises
\* RuntimeError "Division by zero" ("Modulo by zero"), writes nothing to the
\* store, and leaves in the output log exactly the lines printed before.
C13_ZeroDivisorRaises == [][ZeroDivisorStep]_vars

\* A mod by zero was executed after a line had been printed.
C13_Witness ==
    /\ source = ModAfterPrint
    /\ result = Returned(FALSE, <<"Error: Modulo by zero">>)
    /\ cg.output = <<"7">>
    /\ optimized[cg.pc + 1].op = "mod"
    /\ optimized[cg.pc + 1].result \notin DOMAIN cg.memory

RECURSIVE Fib(_)
\* The Fibonacci numbers: Fib(0) = 0, Fib(1) = 1.
Fib(k) == IF k < 2 THEN k ELSE Fib(k - 1) + Fib(k - 2)

RECURSIVE Joined(_, _)
\* The decimal forms of numbers[k..], separated by ", ".
Joined(numbers, k) ==
    IF k > Len(numbers) THEN ""
    ELSE IntToText(numbers[k])
         \o (IF k < Len(numbers) THEN ", " ELSE "")
         \o Joined(numbers, k + 1)

\* The string form of the list of the first n Fibonacci numbers.
FibonacciLine(n) ==
    "[" \o Joined([k \in 1..(IF n < 0 THEN 0 ELSE n) |-> Fib(k - 1)], 1) \o "]"

\* C14: for every n, `fibonacci(f, n); print f;` passes every stage and
\* prints one line, the string form of the list of the first n Fibonacci
\* numbers: compile returns nothing but (True, [that line]); the line is
\* "[]" for n <= 0, "[0]" for n = 1 and "[0, 1, 1, 2, 3, 5]" for n = 6.
C14_FibonacciProgram ==
    /\ FibonacciLine(0) = "[]" /\ FibonacciLine(1) = "[0]"
    /\ FibonacciLine(6) = "[0, 1, 1, 2, 3, 5]"
    /\ \A n \in PatternArgs :
            source = FibonacciExample(n) =>
                /\ IsPrefix(cg.output, <<FibonacciLine(n)>>)
                /\ result.returned =>
                        result = Returned(TRUE, <<FibonacciLine(n)>>)

C14_Witness ==
    /\ source = "fibonacci(f, 6); print f;"
    /\ result = Returned(TRUE, <<"[0, 1, 1, 2, 3, 5]">>)

RECURSIVE Product(_)
\* 2 * 3 * ... * n, 1 for n < 2.
Product(n) == IF n < 2 THEN 1 ELSE n * Product(n - 1)

\* The line `factorial(f, n); print f;` is to print.
FactorialLine(n) == IF n < 0 THEN "0" ELSE IntToText(Product(n))

\* C15: for every n, `factorial(f, n); print f;` outputs exactly one line:
\* "0" for n < 0, "1" for n = 0 and n = 1, the decimal form of 2*3*...*n
\* otherwise ("120" for n = 5, "0" for n = -3): compile returns nothing but
\* (True, [that line]).
C15_FactorialProgram ==
    /\ FactorialLine(0 - 3) = "0" /\ FactorialLine(0) = "1"
    /\ FactorialLine(1) = "1" /\ FactorialLine(5) = "120"
    /\ \A n \in PatternArgs :
            source = FactorialExample(n) =>
                /\ IsPrefix(cg.output, <<FactorialLine(n)>>)
                /\ result.returned =>
                        result = Returned(TRUE, <<FactorialLine(n)>>)

\* The program with the negative literal -3 has printed "0".
C15_Witness ==
    /\ source = "factorial(f, -3); print f;"
    /\ Len(tokens) > 4 /\ tokens[5].type = "INTEGER" /\ tokens[5].value = "-3"
    /\ result = Returned(TRUE, <<"0">>)

\* What one step does to the output log: the step that loads the code
\* leaves it empty, an executed print appends the string form of the value
\* its operand resolves to, any other executed instruction leaves it as it
\* was, and the step that returns hands it over whole.
LogStep ==
    /\ stage = "load" => cg'.output = <<>>
    /\ (stage = "run" /\ steps' = steps + 1) =>
            IF optimized[cg.pc + 1].op = "print"
            THEN cg'.output = Append(cg.output,
                    PyStr(get_value(cg.memory, optimized[cg.pc + 1].arg1)))
            ELSE cg'.output = cg.output
    /\ (stage = "run" /\ steps' = steps) => cg'.output = cg.output
    /\ (result'.returned /\ result'.success) => result'.output = cg.output

\* C16: the log the interpreter returns has one entry per print instruction
\* executed, in the order of their execution, each the string form of the
\* value the operand resolved to; no other instruction appends to the log
\* or alters it.
C16_LogOfPrints == [][LogStep]_vars

\* A run that executed prints among other instructions has returned its log.
C16_Witness ==
    /\ result.returned /\ result.success
    /\ Len(result.output) > 1
    /\ result.output[1] # result.output[2]
    /\ steps > Len(result.output)

\* C17: each run starts from an empty store, an empty log, program counter
\* 0 and a label table of its own code: once a run on an instance is over,
\* by a return or by an exception, a run of another instruction list (the
\* unoptimized, the folded or the optimized code) on that instance goes as
\* it goes on a fresh instance.
C17_RunsStartFresh ==
    (stage = "run" /\ result.returned) =>
        \A second \in {tac, folded, optimized} :
            /\ reset(cg, second) = reset(NewCodeGenerator, second)
            /\ generate_on(cg, second, MaxSteps) = cg_generate(second, MaxSteps)

\* A run has left a store, a log and labels behind, and a second run that
\* reads a name of that store came to its end.
C17_Witness ==
    /\ stage = "run" /\ result.returned
    /\ cg.output # <<>> /\ cg.pc > 0
    /\ \E name \in DOMAIN cg.memory :
            /\ Contains(tac, TACInstruction("print", name, None, None))
            /\ cg_generate(tac, MaxSteps).cg.output[1] = name
    /\ cg_generate(tac, MaxSteps).halted

\* A name of the form new_temp makes: the prefix and a decimal number.
IsTemporaryName(name) ==
    /\ name # None
    /\ Len(name) > 1
    /\ StartsWith(name, TempPrefix)
    /\ \A k \in 2..Len(name) : CharAt(name, k) \in DigitChars

\* The instruction reads `name`: as an operand, or as one of the
\* comma-separated arguments of an intrinsic.
Reads(instr, name) ==
    \/ instr.arg1 = name
    \/ instr.arg2 = name
    \/ /\ instr.op \in {"fibonacci", "factorial", "sequence"}
       /\ instr.arg1 # None
       /\ \E k \in 1..Len(Split(instr.arg1, ",")) :
                Strip(Split(instr.arg1, ",")[k]) = name

\* The temporary names of a list: those its instructions write or read.
TemporaryNames(instructions) ==
    {name \in UNION {{instructions[k].arg1, instructions[k].arg2,
                      instructions[k].result} : k \in 1..Len(instructions)} :
        IsTemporaryName(name)}

\* C18: in the unoptimized TAC of any program every temporary name is the
\* result of exactly one instruction, and that instruction comes before
\* every instruction that reads the temporary.
C18_TemporariesAssignedOnce ==
    stage \in {"fold", "dce", "load", "run"} =>
        \A name \in TemporaryNames(tac) :
            \E k \in 1..Len(tac) :
                /\ tac[k].result = name
                /\ \A j \in 1..Len(tac) :
                        /\ tac[j].result = name => j = k
                        /\ Reads(tac[j], name) => k < j

\* The labels the jumps of a list name.
JumpTargets(instructions) ==
    {instructions[k].arg1 :
        k \in {j \in 1..Len(instructions) : instructions[j].op = "goto"}}
    \cup {instructions[k].arg2 :
        k \in {j \in 1..Len(instructions) : instructions[j].op = "if_false"}}

\* Every label a goto or an if_false of the list names is defined by
\* exactly one label instruction of the list.
LabelsDefinedOnce(instructions) ==
    \A name \in JumpTargets(instructions) :
        Cardinality({k \in 1..Len(instructions) :
                        /\ instructions[k].op = "label"
                        /\ instructions[k].arg1 = name}) = 1

\* C19: in the TAC the IR generator produces, and in the lists the
\* optimizer makes from it, every label a goto or an if_false names is
\* defined by exactly one label instruction of the same list; hence no
\* execution of such code fails with "Label '<name>' not found".
C19_LabelsDefined ==
    /\ stage \in {"fold", "dce", "load", "run"} => LabelsDefinedOnce(tac)
    /\ stage \in AfterFolding => LabelsDefinedOnce(folded)
    /\ stage \in AfterOptimization =>
            /\ LabelsDefinedOnce(optimized)
            /\ JumpTargets(optimized) \subseteq DOMAIN label_map(optimized)
    /\ stage = "run" => cg.labels = label_map(optimized)
    /\ (result.returned /\ ~result.success) =>
            ~StartsWith(result.output[1], "Error: Label '")

\* The execution of optimized code with two labels stands behind the second,
\* which the label table maps to its place.
C19_Witness ==
    /\ stage = "run"
    /\ Cardinality(JumpTargets(optimized)) > 1
    /\ cg.pc > 0
    /\ optimized[cg.pc].op = "label"
    /\ cg.labels[optimized[cg.pc].arg1] = cg.pc - 1
    /\ \E k \in 1..(cg.pc - 1) :
            /\ optimized[k].op = "label"
            /\ optimized[k].arg1 # optimized[cg.pc].arg1

\* The CodeGenerator g with the program counter behind the one instruction
\* `label name` of the optimized code, all else as it was.
BehindLabel(g, name) ==
    [g EXCEPT !.pc = 1 + CHOOSE i \in 0..(Len(optimized) - 1) :
                            /\ optimized[i + 1].op = "label"
                            /\ optimized[i + 1].arg1 = name]

\* The step that executes a goto or an if_false.
JumpStep ==
    (stage = "run" /\ steps' = steps + 1) =>
        Bind(optimized[cg.pc + 1], LAMBDA instr :
            /\ instr.op = "goto" => cg' = BehindLabel(cg, instr.arg1)
            /\ instr.op = "if_false" =>
                    IF get_value(cg.memory, instr.arg1) = IntValue(0)
                    THEN cg' = BehindLabel(cg, instr.arg2)
                    ELSE cg' = [cg EXCEPT !.pc = cg.pc + 1])

\* C20: after `goto L`, and after `if_false c, L` with c resolving to 0, the
\* next instruction executed is the one behind `label L`; after `if_false
\* c, L` with c resolving to another value it is the one behind the
\* if_false; neither changes the store or the output log.
C20_JumpSemantics == [][JumpStep]_vars

\* An if_false whose condition is 0 was the first instruction executed, and
\* the execution stands behind its label, further on.
C20_Witness ==
    /\ stage = "run" /\ steps = 1
    /\ optimized[1].op = "if_false"
    /\ get_value(cg.memory, optimized[1].arg1) = IntValue(0)
    /\ cg.pc > 1
    /\ optimized[cg.pc].op = "label"
    /\ optimized[cg.pc].arg1 = optimized[1].arg2

\* The operand texts of a list of instructions.
OperandTexts(instructions) ==
    UNION {{instructions[k].arg1, instructions[k].arg2} :
                k \in 1..Len(instructions)} \ {None}

\* The resolution of an operand text in the order C21 gives: an integer
\* text, a text in double quotes, a name of the store, the text itself.
Resolution(memory, text) ==
    IF PyInt(text).ok THEN IntValue(PyInt(text).value)
    ELSE IF Len(text) > 0 /\ CharAt(text, 1) = "\"" /\ CharAt(text, Len(text)) = "\""
    THEN StrValue(SubSeq(text, 2, Len(text) - 1))
    ELSE IF text \in DOMAIN memory THEN memory[text]
    ELSE StrValue(text)

\* A store that holds a value under an integer text, under a quoted text
\* and under a name.
CrowdedStore ==
    Put(Put(Put(EmptyDict, "5", StrValue("five")), "\"a\"", IntValue(1)),
        "x", ListValue(<<0, 1>>))

\* C21: get_value resolves a text that parses as an integer to the integer,
\* otherwise a text in double quotes to the string between the quotes,
\* otherwise a name of the store to its stored value, otherwise to the text
\* itself as a string: so it resolves every operand of the code being run
\* in the store of the run, and so it does in a store that holds values
\* under literal texts.
C21_OperandResolution ==
    /\ stage = "run" =>
            \A text \in OperandTexts(optimized) :
                get_value(cg.memory, text) = Resolution(cg.memory, text)
    /\ get_value(CrowdedStore, "5") = IntValue(5)
    /\ get_value(CrowdedStore, "-3") = IntValue(0 - 3)
    /\ get_value(CrowdedStore, "\"a\"") = StrValue("a")
    /\ get_value(CrowdedStore, "\"5\"") = StrValue("5")
    /\ get_value(CrowdedStore, "x") = ListValue(<<0, 1>>)
    /\ get_value(CrowdedStore, "y") = StrValue("y")
    /\ get_value(EmptyDict, "x") = StrValue("x")

\* A print of a name the store does not hold was executed, in a store that
\* holds other names: the line printed is the name.
C21_Witness ==
    /\ stage = "run" /\ cg.pc > 0
    /\ cg.memory # EmptyDict
    /\ optimized[cg.pc].op = "print"
    /\ optimized[cg.pc].arg1 \notin DOMAIN cg.memory
    /\ cg.output # <<>>
    /\ cg.output[Len(cg.output)] = optimized[cg.pc].arg1

\* The generator before and after the k-th statement of the program.
GeneratorBefore(k) ==
    gen_visit_statements(Generator(<<>>, 0, 0, None),
                         SubSeq(ast.statements, 1, k - 1))
GeneratorAfter(k) == gen_visit_statement(GeneratorBefore(k), ast.statements[k])

\* The instructions g2 holds beyond those of g1.
Code(g1, g2) ==
    SubSeq(g2.instructions, Len(g1.instructions) + 1, Len(g2.instructions))

\* The top-level statements of the program of the kind `node`.
TopLevel(node) ==
    {k \in 1..Len(ast.statements) : ast.statements[k].node = node}

LabelNames(instructions) ==
    {instructions[k].arg1 :
        k \in {j \in 1..Len(instructions) : instructions[j].op = "label"}}

\* The parts of the lowering of the if statement k: the generator after the
\* condition, after the then block (two labels taken in between) and after
\* the else block.
IfCondition(k) ==
    gen_visit_expression(GeneratorBefore(k), ast.statements[k].condition)
IfThen(k) ==
    gen_visit_statements(
        [IfCondition(k) EXCEPT !.label_counter = @ + 2],
        ast.statements[k].then_block)
IfElse(k) == gen_visit_statements(IfThen(k), ast.statements[k].else_block)

\* The code of the if statement k is of the form with an else (full) or of
\* the form without.
IfShape(k, full) ==
    IF full
    THEN \E else_label, end_label \in LabelNames(tac) :
            /\ else_label # end_label
            /\ Code(GeneratorBefore(k), GeneratorAfter(k)) =
                 Code(GeneratorBefore(k), IfCondition(k))
                 \o << TACInstruction("if_false", IfCondition(k).value,
                                      else_label, None) >>
                 \o Code(IfCondition(k), IfThen(k))
                 \o << TACInstruction("goto", end_label, None, None),
                       TACInstruction("label", else_label, None, None) >>
                 \o Code(IfThen(k), IfElse(k))
                 \o << TACInstruction("label", end_label, None, None) >>
    ELSE \E end_label \in LabelNames(tac) :
            Code(GeneratorBefore(k), GeneratorAfter(k)) =
                 Code(GeneratorBefore(k), IfCondition(k))
                 \o << TACInstruction("if_false", IfCondition(k).value,
                                      end_label, None) >>
                 \o Code(IfCondition(k), IfThen(k))
                 \o << TACInstruction("label", end_label, None, None) >>

RECURSIVE Trace(_, _, _)
\* The CodeGenerator before each instruction a run executes, at most `fuel`
\* of them: the run goes on from g.
Trace(instructions, g, fuel) ==
    IF fuel = 0 \/ g.pc >= Len(instructions) THEN <<>>
    ELSE Bind(generate_step(instructions, g), LAMBDA done :
         <<g>> \o (IF done.ok THEN Trace(instructions, done.cg, fuel - 1)
                   ELSE <<>>))

\* The run of the unoptimized code.
TacTrace == Trace(tac, reset(NewCodeGenerator, tac), MaxSteps)

\* The places (1-based) of the if_false of the if statement k, of its then
\* code and of its else code in the unoptimized code.
IfFalseAt(k) == Len(IfCondition(k).instructions) + 1
ThenPlaces(k) ==
    (IfFalseAt(k) + 1)..(IfFalseAt(k) + Len(Code(IfCondition(k), IfThen(k))))
ElsePlaces(k) ==
    IF Len(ast.statements[k].else_block) = 0 THEN {}
    ELSE (IfFalseAt(k) + Len(Code(IfCondition(k), IfThen(k))) + 3)
         ..(Len(GeneratorAfter(k).instructions) - 1)

\* In the run of the unoptimized code, the if_false of the if statement k
\* is followed by the then code and never by the else code when its
\* condition resolves to another value than 0, and by the else code and
\* never by the then code when it resolves to 0.
IfRuns(k, trace) ==
    \A j \in 1..Len(trace) :
        trace[j].pc + 1 = IfFalseAt(k) =>
            IF get_value(trace[j].memory, tac[IfFalseAt(k)].arg1) # IntValue(0)
            THEN /\ \A i \in (j + 1)..Len(trace) :
                        trace[i].pc + 1 \notin ElsePlaces(k)
                 /\ (j < Len(trace) /\ ThenPlaces(k) # {}) =>
                        trace[j + 1].pc + 1 = IfFalseAt(k) + 1
            ELSE /\ \A i \in (j + 1)..Len(trace) :
                        trace[i].pc + 1 \notin ThenPlaces(k)
                 /\ (j < Len(trace) /\ ElsePlaces(k) # {}) =>
                        trace[j + 1].pc + 1 \in ElsePlaces(k)
                        /\ \A e \in ElsePlaces(k) : trace[j + 1].pc + 1 <= e

\* C22 as stated: an if with an else, whatever the else block holds, is
\* lowered to the form with `goto end` and `label else`, an if without to
\* the short form, and the run takes the then code exactly when the
\* condition is not 0 and the else code exactly when it is 0.
C22_IfLoweringByElse ==
    stage = "fold" =>
        \A k \in TopLevel("IfStmt") :
            /\ IfShape(k, ast.statements[k].has_else)
            /\ IfRuns(k, TacTrace)

\* C22: an if with an else block of at least one statement is lowered to
\* the code of c, `if_false c, else`, the code of T, `goto end`, `label
\* else`, the code of E, `label end`; an if with no else, or with an else
\* block of no statement, to the code of c, `if_false c, end`, the code of
\* T, `label end`; the run of the unoptimized code takes T exactly when c
\* is not 0 and E exactly when c is 0.
C22_IfLowering ==
    stage = "fold" =>
        \A k \in TopLevel("IfStmt") :
            /\ IfShape(k, /\ ast.statements[k].has_else
                          /\ Len(ast.statements[k].else_block) > 0)
            /\ IfRuns(k, TacTrace)

\* An if with a non-empty else whose condition was 0 has run its else code.
C22_Witness ==
    /\ stage = "fold"
    /\ \E k \in TopLevel("IfStmt") :
            /\ ElsePlaces(k) # {} /\ ThenPlaces(k) # {}
            /\ \E j \in 2..Len(TacTrace) :
                    /\ TacTrace[j - 1].pc + 1 = IfFalseAt(k)
                    /\ TacTrace[j].pc + 1 \in ElsePlaces(k)

\* The parts of the lowering of the for statement k: the generator after
\* the init assignment (two labels taken before it), after the condition,
\* after the block and after the update assignment.
ForInit(k) ==
    gen_visit_assignment([GeneratorBefore(k) EXCEPT !.label_counter = @ + 2],
                         ast.statements[k].init)
ForCondition(k) == gen_visit_expression(ForInit(k), ast.statements[k].condition)
ForBlock(k) == gen_visit_statements(ForCondition(k), ast.statements[k].block)
ForUpdate(k) == gen_visit_assignment(ForBlock(k), ast.statements[k].update)

\* The code of the for statement k: init, `label start`, condition,
\* `if_false c, end`, block, update, `goto start`, `label end`; the init
\* and the update end in the assignment to their variable.
ForShape(k) ==
    /\ \E start_label, end_label \in LabelNames(tac) :
        /\ start_label # end_label
        /\ Code(GeneratorBefore(k), GeneratorAfter(k)) =
                 Code(GeneratorBefore(k), ForInit(k))
                 \o << TACInstruction("label", start_label, None, None) >>
                 \o Code(ForInit(k), ForCondition(k))
                 \o << TACInstruction("if_false", ForCondition(k).value,
                                      end_label, None) >>
                 \o Code(ForCondition(k), ForBlock(k))
                 \o Code(ForBlock(k), ForUpdate(k))
                 \o << TACInstruction("goto", start_label, None, None),
                       TACInstruction("label", end_label, None, None) >>
    /\ \E last \in {Len(ForInit(k).instructions)} :
            /\ last > Len(GeneratorBefore(k).instructions)
            /\ ForInit(k).instructions[last].op = "="
            /\ ForInit(k).instructions[last].result
                    = ast.statements[k].init.identifier
    /\ \E last \in {Len(ForUpdate(k).instructions)} :
            /\ last > Len(ForBlock(k).instructions)
            /\ ForUpdate(k).instructions[last].op = "="
            /\ ForUpdate(k).instructions[last].result
                    = ast.statements[k].update.identifier

\* The places (1-based) in the unoptimized code of the `label start`, the
\* if_false and the `goto start` of the for statement k.
ForStartAt(k) == Len(ForInit(k).instructions) + 1
ForIfFalseAt(k) == Len(ForCondition(k).instructions) + 2
ForGotoAt(k) == Len(GeneratorAfter(k).instructions) - 1

\* The turns of the run in which the if_false of the for statement k is
\* executed, and those of them in which its condition is not 0.
ForTests(k, trace) ==
    {j \in 1..Len(trace) : trace[j].pc + 1 = ForIfFalseAt(k)}
ForEntries(k, trace) ==
    {j \in ForTests(k, trace) :
        get_value(trace[j].memory, tac[ForIfFalseAt(k)].arg1) # IntValue(0)}

\* In the run of the unoptimized code the body of the for statement k
\* follows each test of a condition that is not 0, the first test of a
\* condition that is 0 leaves the loop for good, and `goto start` leads to
\* the code of the condition, which is computed again.
ForRuns(k, trace) ==
    /\ \A j \in ForTests(k, trace) :
            IF j \in ForEntries(k, trace)
            THEN j < Len(trace) => trace[j + 1].pc + 1 = ForIfFalseAt(k) + 1
            ELSE \A i \in (j + 1)..Len(trace) :
                    trace[i].pc + 1 \notin ForStartAt(k)..ForGotoAt(k)
    /\ \A j \in 1..(Len(trace) - 1) :
            trace[j].pc + 1 = ForGotoAt(k) =>
                trace[j + 1].pc + 1 = ForStartAt(k) + 1

ForExample == "for (i = 0; i < 2; i = i + 1) { print i; }"

\* C23: a for statement is lowered to its init assignment, `label start`,
\* the code of c, `if_false c, end`, B, the update assignment, `goto start`
\* and `label end`; in the run of the unoptimized code the condition is
\* computed anew on every turn and the body runs once for each turn whose
\* condition is not 0: for the example the run prints 0 and 1.
C23_ForLowering ==
    stage = "fold" =>
        /\ \A k \in TopLevel("ForStmt") : ForShape(k) /\ ForRuns(k, TacTrace)
        /\ source = ForExample =>
                /\ cg_generate(tac, MaxSteps).halted
                /\ cg_generate(tac, MaxSteps).error.kind = None
                /\ cg_generate(tac, MaxSteps).cg.output = <<"0", "1">>

\* The unoptimized code of the example has run its body twice, and has
\* left the loop at the third test of the condition.
C23_Witness ==
    /\ stage = "fold"
    /\ source = ForExample
    /\ Cardinality(ForTests(1, TacTrace)) = 3
    /\ Cardinality(ForEntries(1, TacTrace)) = 2
    /\ cg_generate(tac, MaxSteps).halted

\* The number of arguments an operand string carries: visit_pattern joins
\* the operands of the arguments with commas, no argument giving "".
ArgumentCount(text) == IF text = "" THEN 0 ELSE Len(Split(text, ","))

\* The number of arguments an intrinsic requires.
Required(op) == IF op = "sequence" THEN 2 ELSE 1

\* The failure C24 gives an intrinsic with too few arguments.
TooFewArguments(op) ==
    Exception("RuntimeError",
              op \o (IF op = "sequence" THEN " requires 2 arguments"
                     ELSE " requires 1 argument"))

\* C24: executing an intrinsic instruction whose operand string carries
\* fewer arguments than the intrinsic requires fails with RuntimeError
\* "<name> requires <k> argument(s)" and does not write the target: so it is
\* for the instruction about to be executed, and for each intrinsic with the
\* operand strings of no and of one argument.
C24_TooFewArguments ==
    /\ (stage = "run" /\ cg.pc < Len(optimized)) =>
            \E instr \in {optimized[cg.pc + 1]} :
                (/\ instr.op \in {"fibonacci", "factorial", "sequence"}
                 /\ ArgumentCount(instr.arg1) < Required(instr.op))
                => execute_instruction(cg, instr)
                        = Failed(cg, TooFewArguments(instr.op))
    /\ \A op \in {"fibonacci", "factorial", "sequence"} :
       \A text \in {"", "1"} :
            ArgumentCount(text) < Required(op) =>
                execute_instruction(NewCodeGenerator,
                                    TACInstruction(op, text, None, "f"))
                    = Failed(NewCodeGenerator, TooFewArguments(op))

\* The operands the IR generator produced for the arguments of the pattern
\* statement k, and the instruction it emitted for the statement.
PatternOperands(k) ==
    gen_visit_arguments(GeneratorBefore(k), ast.statements[k].args, <<>>).value
PatternInstruction(k) ==
    GeneratorAfter(k).instructions[Len(GeneratorAfter(k).instructions)]

\* C25: for every pattern statement, splitting the first operand of the
\* emitted instruction on commas gives the operands the IR generator
\* produced for the arguments, in their order, a string literal among them
\* or not.
C25_ArgumentsRoundTrip ==
    stage = "fold" =>
        \A k \in TopLevel("PatternStmt") :
            /\ Contains(tac, PatternInstruction(k))
            /\ PatternInstruction(k).op = ast.statements[k].pattern_type
            /\ Split(PatternInstruction(k).arg1, ",") = PatternOperands(k)

\* The place p of the source lies inside a string literal: an odd number
\* of double quotes is in front of it.
InsideString(p) ==
    Cardinality({q \in 1..(p - 1) : CharAt(source, q) = "\""}) % 2 = 1

\* The places of the source where a `-` stands right in front of a digit,
\* outside the string literals.
MinusDigitPlaces ==
    {p \in 1..(Len(source) - 1) :
        /\ CharAt(source, p) = "-"
        /\ CharAt(source, p + 1) \in DigitChars
        /\ ~InsideString(p)}

TokenTypes == [k \in 1..Len(tokens) |-> tokens[k].type]

\* C26: a `-` right in front of digits is lexed with them as one INTEGER
\* token of negative value, also behind an identifier, a literal or a
\* closing parenthesis: at each such place of the source an INTEGER token
\* begins whose text is the `-` and the digits, and no MINUS token stands
\* right in front of the digits of an INTEGER token; `x-1` is lexed as
\* IDENTIFIER x, INTEGER -1.
C26_NegativeLiteral ==
    stage # "lex" =>
        /\ \A p \in MinusDigitPlaces :
                \E k \in 1..Len(tokens) :
                    /\ tokens[k].type = "INTEGER"
                    /\ tokens[k].column = p
                    /\ tokens[k].value
                        = "-" \o SubSeq(source, p + 1,
                                        p + RunLength(source, p + 1, DigitChars))
                    /\ PyInt(tokens[k].value).ok
                    /\ PyInt(tokens[k].value).value <= 0
        /\ \A k \in 1..(Len(tokens) - 1) :
                ~ /\ tokens[k].type = "MINUS"
                  /\ tokens[k + 1].type = "INTEGER"
                  /\ tokens[k + 1].column = tokens[k].column + 1
                  /\ tokens[k + 1].line = tokens[k].line
        /\ source = "print 1-2;" =>
                TokenTypes = <<"PRINT", "INTEGER", "INTEGER", "SEMICOLON", "EOF">>
        /\ source = "var x = 5; print x-1;" =>
                /\ SubSeq(TokenTypes, 6, 10)
                        = <<"PRINT", "IDENTIFIER", "INTEGER", "SEMICOLON", "EOF">>
                /\ tokens[8].value = "-1"

\* `(2)-3` has been lexed: the token behind the closing parenthesis is the
\* integer -3.
C26_Witness ==
    /\ source = "var y = (2)-3;"
    /\ stage # "lex"
    /\ \E k \in 2..Len(tokens) :
            /\ tokens[k - 1].type = "RPAREN"
            /\ tokens[k].type = "INTEGER" /\ tokens[k].value = "-3"

\* The analysis of the first k statements of the program.
AnalysisOf(k) == sem_visit_program(SubSeq(ast.statements, 1, k), EmptyDict)

\* Every entry of table `before` is in table `after`, with the same type.
EntriesKept(before, after) ==
    \A name \in DOMAIN before :
        /\ name \in DOMAIN after
        /\ after[name].type = before[name].type

\* C27: the symbol table is append-only per name during analysis: the
\* visit of a statement keeps every entry the table holds, with its type,
\* and a declaration of a name the table holds raises SemanticError and
\* leaves the table as it was; so does declare itself.
C27_SymbolTableAppendOnly ==
    stage \notin {"lex", "parse"} =>
        /\ \A k \in 1..Len(ast.statements) :
             AnalysisOf(k - 1).ok =>
                \E before \in {AnalysisOf(k - 1).symbols} :
                \E node \in {ast.statements[k]} :
                \E after \in {sem_visit_statement(node, before)} :
                    /\ EntriesKept(before, after.symbols)
                    /\ (node.node = "Declaration"
                            /\ node.identifier \in DOMAIN before) =>
                          /\ ~after.ok
                          /\ after.error.kind = "SemanticError"
                          /\ after.symbols = before
                    /\ \A name \in DOMAIN before :
                        \A type \in {"INTEGER", "STRING", "UNKNOWN"} :
                          declare(before, name, type, 1)
                            = SemanticError("Variable '" \o name
                                            \o "' already declared at line 1",
                                            before)
        /\ stage # "analyze" =>
                \A k \in 0..Len(ast.statements) :
                    EntriesKept(AnalysisOf(k).symbols, symbols)

\* A second declaration of x, of another type, was rejected: the table
\* holds x with the type of the first.
C27_Witness ==
    /\ stage = "analyze" /\ result.returned
    /\ StartsWith(result.output[1], "Error: Variable 'x' already declared")
    /\ "x" \in DOMAIN symbols
    /\ symbols["x"].type = "STRING"
    /\ ast.statements[2].expression.node = "Integer"

\* The temporary names the IR generator made for the program.
TemporariesMade ==
    {TempPrefix \o IntToText(n) :
        n \in 0..(gen_visit_statements(Generator(<<>>, 0, 0, None),
                                       ast.statements).temp_counter - 1)}

\* The names the declarations of the program declare.
UserVariables ==
    {DeclaredNames(ast.statements)[k] :
        k \in 1..Len(DeclaredNames(ast.statements))}

TempExample == "var t0 = 7; var y = 1 + 2; print t0;"

\* C28: no temporary name the IR generator makes is the name of a variable
\* of the program, so that the value of a variable is changed only by the
\* code of a statement that targets it: `var t0 = 7; var y = 1 + 2; print
\* t0;` prints 7, unoptimized and compiled.
C28_TemporariesApart ==
    stage \in {"fold", "dce", "load", "run"} =>
        /\ TemporariesMade \cap UserVariables = {}
        /\ source = TempExample =>
                /\ cg_generate(tac, MaxSteps).cg.output = <<"7">>
                /\ result.returned => result = Returned(TRUE, <<"7">>)

RECURSIVE HasLoop(_)
\* Some statement of stmts, at any depth, is a while or a for.
HasLoop(stmts) ==
    IF Len(stmts) = 0 THEN FALSE
    ELSE \/ Head(stmts).node \in {"WhileStmt", "ForStmt"}
         \/ /\ Head(stmts).node = "IfStmt"
            /\ \/ HasLoop(Head(stmts).then_block)
               \/ HasLoop(Head(stmts).else_block)
         \/ HasLoop(Tail(stmts))

\* Two runs end alike: both return with the same log, or both raise.
SameOutcome(run1, run2) ==
    /\ run1.halted /\ run2.halted
    /\ (run1.error.kind = None) = (run2.error.kind = None)
    /\ run1.error.kind = None => run1.cg.output = run2.cg.output

\* C29: for a program without loops, running the output of dead code
\* elimination ends as running its input does: the same log when the run
\* of the input succeeds, a runtime failure exactly when that run fails.
C29_EliminationKeepsOutcome ==
    (stage \in AfterOptimization /\ ~HasLoop(ast.statements)) =>
        SameOutcome(cg_generate(folded, MaxSteps),
                    cg_generate(optimized, MaxSteps))

FoldableOps ==
    {"add", "sub", "mul", "div", "mod", "eq", "ne", "lt", "gt", "le", "ge", "neg"}

\* The instruction of opcode op on the literals of a and b (of a alone for
\* neg), what constant folding makes of it on its own, and the CodeGenerator
\* after executing it on an empty store.
Operation(op, a, b) ==
    TACInstruction(op, IntToText(a),
                   IF op = "neg" THEN None ELSE IntToText(b), "r")
FoldedOperation(op, a, b) ==
    constant_folding(<<Operation(op, a, b)>>).optimized[1]
ExecutedOperation(op, a, b) ==
    execute_instruction(NewCodeGenerator, Operation(op, a, b))

\* Folding op on a and b writes the literal of the value executing it stores.
FoldAgrees(op, a, b) ==
    /\ FoldedOperation(op, a, b).op = "="
    /\ FoldedOperation(op, a, b).result = "r"
    /\ ExecutedOperation(op, a, b).ok
    /\ ExecutedOperation(op, a, b).cg.memory["r"]
            = get_value(EmptyDict, FoldedOperation(op, a, b).arg1)
    /\ ExecutedOperation(op, a, b).cg.memory["r"]
            = IntValue(CASE op = "add" -> a + b
                         [] op = "sub" -> a - b
                         [] op = "mul" -> a * b
                         [] op = "div" -> FloorDiv(a, b)
                         [] op = "mod" -> PyMod(a, b)
                         [] op = "neg" -> 0 - a
                         [] op = "eq" -> IF a = b THEN 1 ELSE 0
                         [] op = "ne" -> IF a # b THEN 1 ELSE 0
                         [] op = "lt" -> IF a < b THEN 1 ELSE 0
                         [] op = "gt" -> IF a > b THEN 1 ELSE 0
                         [] op = "le" -> IF a <= b THEN 1 ELSE 0
                         [] op = "ge" -> IF a >= b THEN 1 ELSE 0)

\* self.constants when constant folding reaches instruction k of the TAC.
ConstantsBefore(k) ==
    constant_folding_loop(tac, 1, k - 1, Folding(<<>>, EmptyDict)).constants

\* The instructions of the TAC that constant folding replaced by the
\* assignment of a literal.
FoldedPlaces ==
    {k \in 1..Len(tac) : tac[k].op \in FoldableOps /\ folded[k].op = "="}

\* The value the optimizer holds for an operand at instruction k (0 for the
\* operand neg does not have).
OperandValue(k, text) ==
    IF text = None THEN 0 ELSE get_constant_value(ConstantsBefore(k), text).value

\* C30: where constant folding folds an arithmetic, comparison or unary
\* instruction whose operands have the integer values a and b, the literal
\* it writes is the literal of the value the interpreter stores for the same
\* opcode on a and b; and so it is for every foldable opcode on these a and
\* b, with b # 0 for div and mod: floor division and floor modulo, 1 or 0
\* for a comparison, the negation for neg.
C30_FoldAgreesWithInterpreter ==
    stage = "dce" =>
        \A k \in FoldedPlaces :
        \E a \in {OperandValue(k, tac[k].arg1)} :
        \E b \in {OperandValue(k, tac[k].arg2)} :
            /\ folded[k] = [FoldedOperation(tac[k].op, a, b)
                                EXCEPT !.result = tac[k].result]
            /\ \A op \in FoldableOps :
                    (op \in {"div", "mod"} => b # 0) => FoldAgrees(op, a, b)

\* A division and a modulo of operands of different signs have been folded.
C30_Witness ==
    /\ stage = "dce"
    /\ \E k \in FoldedPlaces :
            /\ tac[k].op = "div"
            /\ OperandValue(k, tac[k].arg1) > 0
            /\ OperandValue(k, tac[k].arg2) < 0
    /\ \E k \in FoldedPlaces :
            /\ tac[k].op = "mod"
            /\ OperandValue(k, tac[k].arg1) < 0
            /\ OperandValue(k, tac[k].arg2) > 0
            /\ PyMod(OperandValue(k, tac[k].arg1), OperandValue(k, tac[k].arg2)) # 0

====
